---- MODULE Spec2Model ----
(***************************************************************************)
(* A model of the audio core of dj_knobb:                                  *)
(*   - AudioEditor (src/components/PromptDjMidi.ts): the waveform editor's *)
(*     buffer, selection, cut and playback bookkeeping;                    *)
(*   - DrumSequencer (src/components/DrumSequencer.ts): the look-ahead     *)
(*     step scheduler, the pattern grid and the offline export;            *)
(*   - DrumMachine (src/unnamed/part_000): the sample bank and player.     *)
(*                                                                         *)
(* Times are exact rationals written as integers over a fixed unit, so     *)
(* that Math.floor and the sums of sixteenth notes are computed exactly;   *)
(* IEEE rounding of the doubles is not modelled.                           *)
(***************************************************************************)
EXTENDS Integers, Sequences, FiniteSets, TLC

(***************************************************************************)
(* Optional values: null is the empty tuple, a value v is <<v>>.           *)
(***************************************************************************)
None == <<>>

Some(v) == <<v>>

Min(a, b) == IF a < b THEN a ELSE b

Max(a, b) == IF a > b THEN a ELSE b

(***************************************************************************)
(* Bounds of the model.                                                    *)
(***************************************************************************)
\* frames of the longest decoded recording
MaxFrames == 3

\* assignments of audioBlob made by the parent component
MaxLoads == 2

\* advances of the editor's audio clock during which a playback may be
\* started; a running playback lets the clock advance up to its end
MaxEdTicks == 3

\* 'ended' notifications of stopped nodes that may be in flight
MaxEnded == 2

(***************************************************************************)
(* AudioEditor                                                             *)
(***************************************************************************)
VARIABLES
    audioBlob,          \* the audioBlob property: None or Some(blob)
    audioBuffer,        \* None or Some([numberOfChannels, sampleRate, data])
    isPlaying,
    selectionStart,     \* None or Some(time)
    selectionEnd,       \* None or Some(time)
    isLoading,
    sourceNode,         \* None or Some([offset, ended]): the node of play()
    playbackStartTime,
    playbackTime,
    playheadPosition,
    rafPending,         \* requestAnimationFrame callbacks not yet run
    rafLatest,          \* TRUE iff the callback named by animationFrameId is pending
    isDragging,
    canvasWidth,        \* canvas.width, the bitmap width set by draw()
    clientWidth,        \* canvas.clientWidth, the laid-out width
    edClock,            \* audioContext.currentTime of the editor's context
    edTicks,            \* advances of edClock so far
    decoding,           \* decodes in flight: a set of <<load number, blob>>
    nLoads,
    endedPending,       \* 'ended' events dispatched and not yet handled
    downloaded,         \* downloadWav has produced a WAV file
    edRaised,           \* the last handler ended by throwing
    edLastOp,           \* "cutSelection" when that was the last handler to run
    playedTime          \* history: the clock time spent with isPlaying set
                        \* since the last stop() or rewind()

edVars == <<audioBlob, audioBuffer, isPlaying, selectionStart, selectionEnd,
            isLoading, sourceNode, playbackStartTime, playbackTime,
            playheadPosition, rafPending, rafLatest, isDragging, canvasWidth,
            clientWidth, edClock, edTicks, decoding, nLoads,
            endedPending, downloaded, edRaised, edLastOp, playedTime>>

\* The state of the DrumMachine of the live context.
VARIABLES
    drumMachine,        \* this.drumMachine: [samples, loaded, masterGain, nodes]
    loadPromises,       \* None, or Some(the indices whose load attempt has not
                        \* finished) while loadSamples awaits Promise.all
    dmRaised            \* the last handler that calls play() ended by throwing

dmVars == <<drumMachine, loadPromises, dmRaised>>

\* The WAV encoders.
VARIABLES
    wavBuffer,          \* None or Some(the AudioBuffer handed to downloadWav)
    wavEditor,          \* None or Some(the bytes AudioEditor.downloadWav wrote)
    wavSequencer        \* None or Some(the bytes DrumSequencer.downloadWav wrote)

wavVars == <<wavBuffer, wavEditor, wavSequencer>>

\* ApiKeyStorage and the browser storage it reads.
VARIABLES
    localStorage,       \* [encrypted, timestamp]: None or Some(item) each
    dateNow,            \* Date.now(), in units of 12 hours
    storedAt,           \* history: None, or Some(the time at which the item
                        \* under STORAGE_KEY was stored)
    retrieved,          \* history: None, or Some(the last retrieveApiKey call)
    validAnswer         \* history: None, or Some(the last hasValidApiKey call)

keyVars == <<localStorage, dateNow, storedAt, retrieved, validAnswer>>

\* AudioRecorder, the MediaRecorders it has made and the browser's queues.
VARIABLES
    audioRecorder       \* [mediaRecorder, recordedChunks, timeoutId,
                        \*  destination]: the fields of the AudioRecorder
                        \*  (mediaRecorder and destination are 0 for null or
                        \*  the number of the start() that made them);
                        \* [recorders]: the state of every MediaRecorder made;
                        \* [connected]: the destinations sourceNode feeds;
                        \* [timers]: the pending setTimeout callbacks;
                        \* [events]: the recorder events queued, oldest first;
                        \* [finished]: the 'finished' events dispatched

\* The page of index.tsx: the client, the music helper and the component.
VARIABLES
    app                 \* [ai, liveMusicHelper, shown, saves]

\* the variables of the utilities
auxVars == <<keyVars, audioRecorder, app>>


\* The state of the DrumSequencer.
VARIABLES
    patterns,           \* [0..3 -> [0..7 -> [0..15 -> None or Some(pitch)]]]
    currentPattern,
    bpm,
    seqIsPlaying,       \* DrumSequencer.isPlaying
    currentStep,
    melodyBuffer,       \* None or Some(duration of the decoded recording)
    soundsLoaded,
    nextNoteTime,
    timersPending,      \* setTimeout(this.scheduler, 25) callbacks not yet run
    timerLive,          \* TRUE iff the timer named by timerID is pending
    melodySource,       \* None or Some([at, buffer, dest, stopped]): the
                        \* melody node this.melodySource refers to
    bpmDrag,            \* None or Some(bpmDragStartBpm) while the listeners are on
    gesture,            \* None or Some([track, step, startPitch, downPitch, dragged])
    exportStage,        \* "idle", "loading" or "rendering": where exportAudio is
    exportJob,          \* what the running exportAudio has computed so far
    seqClock,           \* audioContext.currentTime of the live context
    seqTicks,           \* advances of seqClock so far
    startTime,          \* nextNoteTime as set by the last startPlayback
    scheduled,          \* scheduleNote calls since the last start, in order
    exported            \* None or Some(what exportAudio has handed the offline context)

seqVars == <<patterns, currentPattern, bpm, seqIsPlaying, currentStep,
             melodyBuffer, soundsLoaded, nextNoteTime, timersPending,
             timerLive, melodySource, bpmDrag, gesture, exportStage,
             exportJob, seqClock, seqTicks, startTime, scheduled, exported>>

\* the sequencer, the editor and the encoders
coreVars == <<edVars, seqVars, dmVars, wavVars>>

\* The sample rate of the editor's AudioContext; decodeAudioData resamples
\* every recording to it.
SampleRate == 44100

\* Time unit: one frame lasts UnitsPerFrame units, i.e. a time of t units is
\* t / (UnitsPerFrame * SampleRate) seconds, and Math.floor(time * sampleRate)
\* is t \div UnitsPerFrame.
UnitsPerFrame == 3

\* canvas.width before the first draw(), and the widths layout can give.
DefaultCanvasWidth == 1

ClientWidths == {1, 3}

Blobs == {1, 2}

\* decodeAudioData: blob 1 is mono and MaxFrames long, blob 2 is stereo and
\* one frame shorter; every sample is distinct.
DecodeAudioData(b) ==
    LET len == IF b = 1 THEN MaxFrames ELSE MaxFrames - 1
    IN  [numberOfChannels |-> b,
         sampleRate |-> SampleRate,
         data |-> [c \in 1..b |-> [i \in 1..len |-> 100 * b + 10 * c + i]]]

\* AudioBuffer.length
BufLength(buf) == Len(buf.data[1])

\* AudioBuffer.duration, in time units
Duration(buf) == BufLength(buf) * UnitsPerFrame

\* Math.floor(time * sampleRate)
FloorSample(t) == t \div UnitsPerFrame

\* TypedArray.prototype.subarray(begin, end): relative indices, clamped.
Subarray(a, begin, end) ==
    LET len == Len(a)
        b == IF begin < 0 THEN Max(len + begin, 0) ELSE Min(begin, len)
        e == IF end < 0 THEN Max(len + end, 0) ELSE Min(end, len)
    IN  IF e > b THEN SubSeq(a, b + 1, e) ELSE <<>>

\* TypedArray.prototype.set(source, offset) raises a RangeError when the source
\* does not fit.
SetThrows(target, source, offset) == Len(source) + offset > Len(target)

TypedArraySet(target, source, offset) ==
    [i \in 1..Len(target) |->
        IF i > offset /\ i <= offset + Len(source) THEN source[i - offset]
        ELSE target[i]]

\* the Float32Array of a buffer made by createBuffer: all zero
ZeroArray(n) == [i \in 1..n |-> 0]

\* One clock advance of the model: a frame and a third of audio.
ClockStep == UnitsPerFrame + 1

(***************************************************************************)
(* The fields of the editor that its private methods read and write, as a  *)
(* record, so that the methods compose as they do in the source.           *)
(***************************************************************************)
Ed ==
    [audioBuffer |-> audioBuffer, isPlaying |-> isPlaying,
     selectionStart |-> selectionStart, selectionEnd |-> selectionEnd,
     sourceNode |-> sourceNode, playbackStartTime |-> playbackStartTime,
     playbackTime |-> playbackTime, playheadPosition |-> playheadPosition,
     rafPending |-> rafPending, rafLatest |-> rafLatest,
     canvasWidth |-> canvasWidth, endedPending |-> endedPending,
     raised |-> FALSE, played |-> playedTime]

SetEd(ed) ==
    /\ audioBuffer' = ed.audioBuffer
    /\ isPlaying' = ed.isPlaying
    /\ selectionStart' = ed.selectionStart
    /\ selectionEnd' = ed.selectionEnd
    /\ sourceNode' = ed.sourceNode
    /\ playbackStartTime' = ed.playbackStartTime
    /\ playbackTime' = ed.playbackTime
    /\ playheadPosition' = ed.playheadPosition
    /\ rafPending' = ed.rafPending
    /\ rafLatest' = ed.rafLatest
    /\ canvasWidth' = ed.canvasWidth
    /\ endedPending' = ed.endedPending
    /\ edRaised' = ed.raised
    /\ playedTime' = ed.played

\* draw(): sizes the bitmap to the laid-out width, then paints.
DrawOn(ed) == [ed EXCEPT !.canvasWidth = clientWidth]

\* if (this.animationFrameId) cancelAnimationFrame(this.animationFrameId)
CancelAnimationFrame(ed) ==
    IF ed.rafLatest
    THEN [ed EXCEPT !.rafPending = @ - 1, !.rafLatest = FALSE]
    ELSE ed

\* AudioBufferSourceNode.stop(): a node that has not ended yet ends now, and
\* its 'ended' event is dispatched later.
NodeStop(ed) ==
    IF ed.sourceNode # None /\ ~ed.sourceNode[1].ended
    THEN [ed EXCEPT !.endedPending = @ + 1]
    ELSE ed

\* stop()
StopOn(ed) ==
    DrawOn(CancelAnimationFrame(
        [NodeStop(ed) EXCEPT !.sourceNode = None, !.isPlaying = FALSE,
                             !.playbackTime = 0, !.playheadPosition = 0,
                             !.played = 0]))

\* a pause that drops the time elapsed since play()
PauseOnForgetElapsed(ed, now) ==
    IF ~ed.isPlaying \/ ed.sourceNode = None THEN ed
    ELSE CancelAnimationFrame(
            [NodeStop(ed) EXCEPT !.sourceNode = None, !.isPlaying = FALSE])

\* pause()
PauseOn(ed, now) ==
    IF ~ed.isPlaying \/ ed.sourceNode = None THEN ed
    ELSE CancelAnimationFrame(
            [NodeStop(ed) EXCEPT !.playbackTime = @ + (now - ed.playbackStartTime),
                                 !.sourceNode = None, !.isPlaying = FALSE])

\* a loop() that draws the position and never stops at the end
LoopOnPastTheEnd(ed, now) ==
    LET pos == ed.playbackTime + (now - ed.playbackStartTime)
        e1 == IF ed.isPlaying /\ ed.audioBuffer # None
              THEN [ed EXCEPT !.playheadPosition = pos]
              ELSE ed
    IN  [DrawOn(e1) EXCEPT !.rafPending = @ + 1, !.rafLatest = TRUE]

\* loop(): the body, then requestAnimationFrame(() => this.loop())
LoopOn(ed, now) ==
    LET pos == ed.playbackTime + (now - ed.playbackStartTime)
        e1 == IF ed.isPlaying /\ ed.audioBuffer # None
              THEN IF pos >= Duration(ed.audioBuffer[1])
                   THEN StopOn([ed EXCEPT !.playheadPosition = pos])
                   ELSE [ed EXCEPT !.playheadPosition = pos]
              ELSE ed
    IN  [DrawOn(e1) EXCEPT !.rafPending = @ + 1, !.rafLatest = TRUE]

\* play()
PlayOn(ed, now) ==
    IF ed.audioBuffer = None \/ ed.isPlaying THEN ed
    ELSE LoopOn(
            [ed EXCEPT !.sourceNode =
                           Some([offset |-> ed.playbackTime % Duration(ed.audioBuffer[1]),
                                 ended |-> FALSE]),
                       !.playbackStartTime = now,
                       !.isPlaying = TRUE],
            now)

\* rewind()
RewindOn(ed, now) ==
    DrawOn(IF ed.isPlaying
           THEN PlayOn([PauseOn(ed, now) EXCEPT !.playbackTime = 0,
                                                !.playheadPosition = 0,
                                                !.played = 0], now)
           ELSE [ed EXCEPT !.playbackTime = 0, !.playheadPosition = 0,
                           !.played = 0])

\* resetPlayback()
ResetPlaybackOn(ed) ==
    [StopOn(ed) EXCEPT !.selectionStart = None, !.selectionEnd = None]

\* const start = Math.min(this.selectionStart, this.selectionEnd)
CutStart(s, e) == Min(s, e)

\* const end = Math.max(this.selectionEnd, this.selectionEnd)
CutEnd(s, e) == Max(e, e)

\* const newLength = length - (endSample - startSample)
CutNewLength(length, startSample, endSample) == length - (endSample - startSample)

\* CutChannel with the tail copied from one frame too far
CutChannelTailOffByOne(old, startSample, endSample, newLength) ==
    LET head == Subarray(old, 0, startSample)
        tail == Subarray(old, endSample + 1, Len(old))
        t0 == ZeroArray(newLength)
    IN  IF SetThrows(t0, head, 0) \/ SetThrows(t0, tail, startSample)
        THEN [raised |-> TRUE, data |-> <<>>]
        ELSE [raised |-> FALSE,
              data |-> TypedArraySet(TypedArraySet(t0, head, 0), tail, startSample)]

\* One pass of the per-channel loop of cutSelection: the two set() calls on the
\* zero-filled channel of the new buffer. raised: a set() threw a RangeError.
CutChannel(old, startSample, endSample, newLength) ==
    LET head == Subarray(old, 0, startSample)
        tail == Subarray(old, endSample, Len(old))
        t0 == ZeroArray(newLength)
    IN  IF SetThrows(t0, head, 0) \/ SetThrows(t0, tail, startSample)
        THEN [raised |-> TRUE, data |-> <<>>]
        ELSE [raised |-> FALSE,
              data |-> TypedArraySet(TypedArraySet(t0, head, 0), tail, startSample)]

\* CutIsEmpty with the test newLength < 0
CutIsEmptyStrict(newLength) == newLength < 0

\* if (newLength <= 0)
CutIsEmpty(newLength) == newLength <= 0

\* the guard of cutSelection (line 866)
CutGuard(ed) ==
    ed.audioBuffer # None /\ ed.selectionStart # None /\ ed.selectionEnd # None

\* cutSelection() past its guard
CutBody(ed) ==
      LET e0 == StopOn(ed)
          buf == ed.audioBuffer[1]
          startSample == FloorSample(CutStart(ed.selectionStart[1], ed.selectionEnd[1]))
          endSample == FloorSample(CutEnd(ed.selectionStart[1], ed.selectionEnd[1]))
          newLength == CutNewLength(BufLength(buf), startSample, endSample)
          chans == [c \in 1..buf.numberOfChannels |->
                       CutChannel(buf.data[c], startSample, endSample, newLength)]
      IN  IF CutIsEmpty(newLength)
          THEN ResetPlaybackOn([e0 EXCEPT !.audioBuffer = None])
          ELSE IF chans[1].raised
          THEN [e0 EXCEPT !.raised = TRUE]
          ELSE ResetPlaybackOn(
                  [e0 EXCEPT !.audioBuffer =
                      Some([numberOfChannels |-> buf.numberOfChannels,
                            sampleRate |-> buf.sampleRate,
                            data |-> [c \in 1..buf.numberOfChannels |-> chans[c].data]])])

\* cutSelection with stop() called ahead of the guard
CutSelectionStopFirst(ed) == IF ~CutGuard(ed) THEN StopOn(ed) ELSE CutBody(ed)

\* cutSelection()
CutSelectionOn(ed) == IF ~CutGuard(ed) THEN ed ELSE CutBody(ed)

\* (x / this.canvas.width) * this.audioBuffer.duration
CanvasTime(ed, x) == (x * Duration(ed.audioBuffer[1])) \div ed.canvasWidth

EdInit ==
    /\ audioBlob = None
    /\ audioBuffer = None
    /\ isPlaying = FALSE
    /\ selectionStart = None
    /\ selectionEnd = None
    /\ isLoading = TRUE
    /\ sourceNode = None
    /\ playbackStartTime = 0
    /\ playbackTime = 0
    /\ playheadPosition = 0
    /\ rafPending = 0
    /\ rafLatest = FALSE
    /\ isDragging = FALSE
    /\ canvasWidth = DefaultCanvasWidth
    /\ clientWidth = 3
    /\ edClock = 0
    /\ edTicks = 0
    /\ decoding = {}
    /\ nLoads = 0
    /\ endedPending = 0
    /\ downloaded = FALSE
    /\ edRaised = FALSE
    /\ edLastOp = "other"
    /\ playedTime = 0

\* what a handler leaves alone unless it says otherwise
EdEnvUnchanged ==
    UNCHANGED <<audioBlob, isLoading, isDragging, clientWidth,
                edClock, edTicks, decoding, nLoads, downloaded>>

\* The parent assigns a new blob to the audioBlob property; updated() runs up
\* to its first await.
SetAudioBlob(b) ==
    /\ nLoads < MaxLoads
    /\ audioBlob # Some(b)
    /\ audioBlob' = Some(b)
    /\ isLoading' = TRUE
    /\ nLoads' = nLoads + 1
    /\ decoding' = decoding \cup {<<nLoads + 1, b>>}
    /\ SetEd(Ed)
    /\ edLastOp' = "other"
    /\ UNCHANGED <<isDragging, clientWidth, edClock, edTicks, downloaded>>
    /\ UNCHANGED seqVars
    /\ UNCHANGED dmVars
    /\ UNCHANGED wavVars
    /\ UNCHANGED auxVars

\* updated() resumes after decodeAudioData has resolved (lines 690-695). The
\* draw() it defers with setTimeout(..., 0) repeats the draw() that stop() has
\* just made.
DecodeResolved(l) ==
    /\ l \in decoding
    /\ decoding' = decoding \ {l}
    /\ isLoading' = FALSE
    /\ SetEd(ResetPlaybackOn([Ed EXCEPT !.audioBuffer = Some(DecodeAudioData(l[2]))]))
    /\ edLastOp' = "other"
    /\ UNCHANGED <<audioBlob, isDragging, clientWidth, edClock, edTicks, nLoads, downloaded>>
    /\ UNCHANGED seqVars
    /\ UNCHANGED dmVars
    /\ UNCHANGED wavVars
    /\ UNCHANGED auxVars

\* decodeAudioData rejects: updated() ends there, isLoading stays true.
DecodeRejected(l) ==
    /\ l \in decoding
    /\ decoding' = decoding \ {l}
    /\ SetEd([Ed EXCEPT !.raised = TRUE])
    /\ edLastOp' = "other"
    /\ UNCHANGED <<audioBlob, isLoading, isDragging, clientWidth,
                   edClock, edTicks, nLoads, downloaded>>
    /\ UNCHANGED seqVars
    /\ UNCHANGED dmVars
    /\ UNCHANGED wavVars
    /\ UNCHANGED auxVars

\* The window is resized: layout changes the canvas's clientWidth; nothing
\* redraws until the next draw().
Resize(w) ==
    /\ w # clientWidth
    /\ clientWidth' = w
    /\ SetEd([Ed EXCEPT !.raised = edRaised])
    /\ edLastOp' = "other"
    /\ UNCHANGED <<audioBlob, isLoading, isDragging, edClock,
                   edTicks, decoding, nLoads, downloaded>>
    /\ UNCHANGED seqVars
    /\ UNCHANGED dmVars
    /\ UNCHANGED wavVars
    /\ UNCHANGED auxVars

\* handleCanvasDown(e), with x = e.clientX - rect.left
HandleCanvasDown(x) ==
    /\ x \in 0..clientWidth
    /\ IF audioBuffer = None
       THEN /\ SetEd(Ed)
            /\ UNCHANGED isDragging
       ELSE /\ SetEd([Ed EXCEPT !.selectionStart = Some(CanvasTime(Ed, x)),
                                !.selectionEnd = Some(CanvasTime(Ed, x))])
            /\ isDragging' = TRUE
    /\ edLastOp' = "other"
    /\ UNCHANGED <<audioBlob, isLoading, clientWidth, edClock,
                   edTicks, decoding, nLoads, downloaded>>
    /\ UNCHANGED seqVars
    /\ UNCHANGED dmVars
    /\ UNCHANGED wavVars
    /\ UNCHANGED auxVars

\* handleCanvasMove(e)
HandleCanvasMove(x) ==
    /\ x \in 0..clientWidth
    /\ IF ~isDragging \/ audioBuffer = None
       THEN SetEd(Ed)
       ELSE SetEd([Ed EXCEPT !.selectionEnd = Some(CanvasTime(Ed, x))])
    /\ edLastOp' = "other"
    /\ EdEnvUnchanged
    /\ UNCHANGED seqVars
    /\ UNCHANGED dmVars
    /\ UNCHANGED wavVars
    /\ UNCHANGED auxVars

\* handleCanvasUp(), on pointerup and pointerleave
HandleCanvasUp ==
    /\ isDragging' = FALSE
    /\ SetEd(Ed)
    /\ edLastOp' = "other"
    /\ UNCHANGED <<audioBlob, isLoading, clientWidth, edClock,
                   edTicks, decoding, nLoads, downloaded>>
    /\ UNCHANGED seqVars
    /\ UNCHANGED dmVars
    /\ UNCHANGED wavVars
    /\ UNCHANGED auxVars

\* cutSelection(); the draw() it defers with setTimeout(..., 0) repeats the
\* draw() that stop() has just made.
CutSelection ==
    /\ SetEd(CutSelectionOn(Ed))
    /\ edLastOp' = "cutSelection"
    /\ UNCHANGED <<audioBlob, isLoading, isDragging, clientWidth, edClock,
                   edTicks, decoding, nLoads, downloaded>>
    /\ UNCHANGED seqVars
    /\ UNCHANGED dmVars
    /\ UNCHANGED wavVars
    /\ UNCHANGED auxVars

\* playPause(): a new node is created only while its 'ended' event still has
\* room in the bounded event queue.
PlayPause ==
    /\ isPlaying \/ endedPending < MaxEnded
    /\ SetEd(IF isPlaying THEN PauseOn(Ed, edClock) ELSE PlayOn(Ed, edClock))
    /\ edLastOp' = "other"
    /\ EdEnvUnchanged
    /\ UNCHANGED seqVars
    /\ UNCHANGED dmVars
    /\ UNCHANGED wavVars
    /\ UNCHANGED auxVars

\* stop(), from the Stop button
Stop ==
    /\ SetEd(StopOn(Ed))
    /\ edLastOp' = "other"
    /\ EdEnvUnchanged
    /\ UNCHANGED seqVars
    /\ UNCHANGED dmVars
    /\ UNCHANGED wavVars
    /\ UNCHANGED auxVars

\* rewind()
Rewind ==
    /\ isPlaying => endedPending + 1 < MaxEnded
    /\ SetEd(RewindOn(Ed, edClock))
    /\ edLastOp' = "other"
    /\ EdEnvUnchanged
    /\ UNCHANGED seqVars
    /\ UNCHANGED dmVars
    /\ UNCHANGED wavVars
    /\ UNCHANGED auxVars

\* An animation frame runs one pending () => this.loop(): either the one
\* animationFrameId names (latest) or an older chain's.
LoopFrame(latest) ==
    /\ rafPending > 0
    /\ IF latest THEN rafLatest ELSE rafPending > (IF rafLatest THEN 1 ELSE 0)
    /\ SetEd(LoopOn([Ed EXCEPT !.rafPending = @ - 1,
                               !.rafLatest = IF latest THEN FALSE ELSE @],
                    edClock))
    /\ edLastOp' = "other"
    /\ EdEnvUnchanged
    /\ UNCHANGED seqVars
    /\ UNCHANGED dmVars
    /\ UNCHANGED wavVars
    /\ UNCHANGED auxVars

\* The playing node reaches the end of its buffer: it ends and its 'ended'
\* event is dispatched.
NodeEnds ==
    /\ sourceNode # None
    /\ ~sourceNode[1].ended
    /\ edClock - playbackStartTime >= Duration(audioBuffer[1]) - sourceNode[1].offset
    /\ SetEd([Ed EXCEPT !.sourceNode = Some([@[1] EXCEPT !.ended = TRUE]),
                        !.endedPending = @ + 1,
                        !.raised = edRaised])
    /\ edLastOp' = "other"
    /\ EdEnvUnchanged
    /\ UNCHANGED seqVars
    /\ UNCHANGED dmVars
    /\ UNCHANGED wavVars
    /\ UNCHANGED auxVars

\* sourceNode.onended of some node that has ended
OnEnded ==
    /\ endedPending > 0
    /\ SetEd(LET ed == [Ed EXCEPT !.endedPending = @ - 1]
             IN  IF ed.isPlaying THEN StopOn(ed) ELSE ed)
    /\ edLastOp' = "other"
    /\ EdEnvUnchanged
    /\ UNCHANGED seqVars
    /\ UNCHANGED dmVars
    /\ UNCHANGED wavVars
    /\ UNCHANGED auxVars

\* downloadWav(), reached from the stem dialog's "No, just the mix"
DownloadWav ==
    /\ downloaded' = IF audioBuffer = None THEN downloaded ELSE TRUE
    /\ SetEd(Ed)
    /\ edLastOp' = "other"
    /\ UNCHANGED <<audioBlob, isLoading, isDragging, clientWidth,
                   edClock, edTicks, decoding, nLoads>>
    /\ UNCHANGED seqVars
    /\ UNCHANGED dmVars
    /\ UNCHANGED wavVars
    /\ UNCHANGED auxVars

\* playbackTime + (currentTime - playbackStartTime), the position of loop()
PlaybackPosition == playbackTime + (edClock - playbackStartTime)

\* The audio clock of the editor's context advances: at any moment of the
\* first MaxEdTicks advances, and later for as long as a playback has not
\* reached the end of its buffer.
AdvanceEdClock ==
    /\ \/ edTicks < MaxEdTicks
       \/ isPlaying /\ PlaybackPosition < Duration(audioBuffer[1])
    /\ edTicks' = edTicks + 1
    /\ edClock' = edClock + ClockStep
    /\ SetEd([Ed EXCEPT !.raised = edRaised,
                        !.played = IF isPlaying THEN @ + ClockStep ELSE @])
    /\ edLastOp' = "other"
    /\ UNCHANGED <<audioBlob, isLoading, isDragging, clientWidth,
                   decoding, nLoads, downloaded>>
    /\ UNCHANGED seqVars
    /\ UNCHANGED dmVars
    /\ UNCHANGED wavVars
    /\ UNCHANGED auxVars

(***************************************************************************)
(* DrumSequencer                                                           *)
(***************************************************************************)
\* Sequencer times are counted in units of 1/840 s, which makes a sixteenth
\* note a whole number of units for every tempo dividing 12600.
SeqUnitsPerSecond == 840

\* scheduleAheadTime = 0.1 (seconds)
ScheduleAheadTime == 84

\* one advance of the audio clock between two events: a look-ahead window
SeqClockStep == ScheduleAheadTime

\* advances of the sequencer's audio clock
MaxSeqTicks == 18

Tracks == 0..7

Steps == 0..15

\* the tempi whose sixteenth note is a whole number of units
ModelBpms == {b \in 60..200 : (15 * SeqUnitsPerSecond) % b = 0}

\* half a beat where a beat is due
ThirtyOverBpm(b) == (30 * SeqUnitsPerSecond) \div b

\* 60 / this.bpm, in units
SixtyOverBpm(b) == (60 * SeqUnitsPerSecond) \div b

\* an eighth note where a sixteenth is due
Eighth(b) == SixtyOverBpm(b) \div 2

\* (60.0 / this.bpm) / 4: the length of a sixteenth note
Sixteenth(b) == SixtyOverBpm(b) \div 4

\* (step * (60 / this.bpm)) / 4: the time of a step in exportAudio
ExportStepTime(step, b) == (step * SixtyOverBpm(b)) \div 4

\* (16 * (60 / this.bpm)) / 4
LoopDuration(b) == (16 * SixtyOverBpm(b)) \div 4

\* Array(16).fill(null)
EmptyTrack == [s \in Steps |-> None]

\* a track with pitch 0 on the steps of `on`
TrackWith(on) == [s \in Steps |-> IF s \in on THEN Some(0) ELSE None]

EmptyPattern == [i \in Tracks |-> EmptyTrack]

\* PREMADE_LOOPS
PremadeLoops ==
    [House |->
        [bpm |-> 140,
         pattern |-> [EmptyPattern EXCEPT ![1] = TrackWith({0, 4, 8, 12}),
                                          ![3] = TrackWith({4, 12}),
                                          ![4] = TrackWith({2, 6, 10, 14})]],
     Trap |->
        [bpm |-> 150,
         pattern |-> [EmptyPattern EXCEPT ![0] = TrackWith({0, 7, 10}),
                                          ![1] = TrackWith({0, 7, 10}),
                                          ![2] = TrackWith({4, 12}),
                                          ![4] = TrackWith({0, 1, 2, 4, 5, 6, 8, 9, 12, 13, 14})]],
     BoomBap |->
        [bpm |-> 90,
         pattern |-> [EmptyPattern EXCEPT ![1] = TrackWith({0, 2, 8, 11}),
                                          ![2] = TrackWith({4, 12}),
                                          ![4] = TrackWith({0, 2, 4, 6, 8, 10, 12, 14})]]]

LoopNames == {"House", "Trap", "BoomBap"}

(***************************************************************************)
(* DrumMachine                                                             *)
(***************************************************************************)
\* the voices: SAMPLES has 8 entries
SampleIndices == 0..7

\* new DrumMachine(audioContext): no sample, not loaded, a masterGain that is
\* connected to nothing; `nodes` are the playback nodes play() has created
NewDrumMachine ==
    [samples |-> [i \in SampleIndices |-> None],
     loaded |-> FALSE,
     masterGain |-> None,
     nodes |-> <<>>]

\* connect(destination): this.masterGain.connect(destination)
ConnectOn(dm, destination) == [dm EXCEPT !.masterGain = Some(destination)]

\* this.samples.length: one more than the highest index assigned
SamplesLength(dm) ==
    LET assigned == {i \in SampleIndices : dm.samples[i] # None}
    IN  IF assigned = {} THEN 0
        ELSE 1 + CHOOSE i \in assigned : \A j \in assigned : j <= i

\* a store that appends the decoded buffer, as samples.push would
PushSample(dm, index) ==
    [dm EXCEPT !.samples[SamplesLength(dm)] = Some(index)]

\* this.samples[index] = audioBuffer, the buffer decoded from SAMPLES[index]
StoreSample(dm, index) == [dm EXCEPT !.samples[index] = Some(index)]

\* a guard of play that does not look at the sample
PlayAcceptsUnchecked(dm, index) ==
    ~(~dm.loaded \/ index < 0 \/ index >= 8)

\* the guard of play: the negation of
\* !this.loaded || index < 0 || index >= this.samples.length || !this.samples[index]
PlayAccepts(dm, index) ==
    ~(\/ ~dm.loaded
      \/ index < 0
      \/ index >= SamplesLength(dm)
      \/ dm.samples[index] = None)

\* what play can raise once its guard has passed: source.start(when) throws
\* a RangeError for a negative when (a missing buffer is assigned as null
\* and throws nothing)
PlayRaises(dm, index, time) ==
    PlayAccepts(dm, index) /\ time # None /\ time[1] < 0

\* a gain policy that boosts no voice
VoiceGainFlat(index) == 2

\* gainNode.gain.value, in halves: 1.5 for the 808, the default 1 otherwise
VoiceGain(index) == IF index = 0 THEN 3 ELSE 2

\* time || this.audioContext.currentTime: an omitted time and a time of 0
\* both give the context's current time
StartWhen(time, now) == IF time = None \/ time = Some(0) THEN now ELSE time[1]

\* play(index, time, pitchBend) while the context's clock reads `now`
DrumMachinePlay(dm, index, time, pitchBend, now) ==
    IF ~PlayAccepts(dm, index) \/ PlayRaises(dm, index, time) THEN dm
    ELSE [dm EXCEPT !.nodes =
             Append(@, [index |-> index,
                        buffer |-> IF index \in SampleIndices
                                   THEN dm.samples[index] ELSE None,
                        detune |-> pitchBend,
                        gain |-> VoiceGain(index),
                        to |-> "masterGain",
                        when |-> StartWhen(time, now)])]

\* The fields of the sequencer that its scheduling methods read and write;
\* `raised` tells that the method ended by throwing.
Sq ==
    [currentStep |-> currentStep, nextNoteTime |-> nextNoteTime,
     timersPending |-> timersPending, timerLive |-> timerLive,
     melodySource |-> melodySource, startTime |-> startTime,
     scheduled |-> scheduled, raised |-> FALSE]

SetSeq(q) ==
    /\ currentStep' = q.currentStep
    /\ nextNoteTime' = q.nextNoteTime
    /\ timersPending' = q.timersPending
    /\ timerLive' = q.timerLive
    /\ melodySource' = q.melodySource
    /\ startTime' = q.startTime
    /\ scheduled' = q.scheduled
    /\ dmRaised' = q.raised

\* a test of the cell that takes a pitch of 0 for an empty cell
CellSoundsTruthy(pitch) == pitch # None /\ pitch[1] # 0

\* pitch !== null
CellSounds(pitch) == pitch # None

\* The for loop of scheduleNote from track i on: the drumMachine.play(i, time,
\* pitch) calls it makes, in order.
RECURSIVE DrumPlays(_, _, _, _)
DrumPlays(grid, beatNumber, time, i) ==
    IF i >= 8 THEN <<>>
    ELSE LET pitch == grid[i][beatNumber]
         IN  (IF CellSounds(pitch) THEN <<<<i, time, pitch[1]>>>> ELSE <<>>)
                 \o DrumPlays(grid, beatNumber, time, i + 1)

\* a scheduleNote that starts the melody on every beat
ScheduleNoteEveryBeat(q, beatNumber, time) ==
    LET melody == beatNumber % 4 = 0 /\ melodyBuffer # None
    IN  [q EXCEPT
            !.scheduled = Append(@, [step |-> beatNumber, time |-> time,
                                     plays |-> DrumPlays(patterns[currentPattern],
                                                         beatNumber, time, 0),
                                     melody |-> melody, bpm |-> bpm,
                                     buffer |-> IF melody THEN melodyBuffer
                                                ELSE None]),
            !.melodySource = IF melody
                             THEN Some([at |-> time, buffer |-> melodyBuffer[1],
                                        dest |-> "masterBus",
                                        stopped |-> FALSE])
                             ELSE @]

\* scheduleNote(beatNumber, time); a play() that raises ends it at once
ScheduleNoteOn(q, beatNumber, time) ==
    LET melody == beatNumber = 0 /\ melodyBuffer # None
        plays == DrumPlays(patterns[currentPattern], beatNumber, time, 0)
        raising == {n \in 1..Len(plays) : PlayRaises(drumMachine, plays[n][1],
                                                  Some(plays[n][2]))}
    IN  IF raising # {}
        THEN [q EXCEPT
                !.raised = TRUE,
                !.scheduled =
                    Append(@, [step |-> beatNumber, time |-> time,
                               plays |-> SubSeq(plays, 1,
                                            (CHOOSE n \in raising :
                                                \A m \in raising : n <= m) - 1),
                               melody |-> FALSE, bpm |-> bpm,
                               buffer |-> None])]
        ELSE [q EXCEPT
                !.scheduled = Append(@, [step |-> beatNumber, time |-> time,
                                         plays |-> plays,
                                         melody |-> melody, bpm |-> bpm,
                                         buffer |-> IF melody THEN melodyBuffer
                                                    ELSE None]),
                !.melodySource = IF melody
                                 THEN Some([at |-> time,
                                            buffer |-> melodyBuffer[1],
                                            dest |-> "masterBus",
                                            stopped |-> FALSE])
                                 ELSE @]

\* an advance that never wraps
AdvanceStepNoWrap(step) == step + 1

\* (this.currentStep + 1) % 16
AdvanceStep(step) == (step + 1) % 16

\* a loop body that schedules the due step without advancing nextNoteTime
SchedulerLoopOnce(q) ==
    IF q.nextNoteTime < seqClock + ScheduleAheadTime
    THEN [ScheduleNoteOn(q, q.currentStep, q.nextNoteTime) EXCEPT
             !.currentStep = AdvanceStep(@)]
    ELSE q

\* the while loop of scheduler()
RECURSIVE SchedulerLoop(_)
SchedulerLoop(q) ==
    IF q.nextNoteTime < seqClock + ScheduleAheadTime
    THEN LET noted == ScheduleNoteOn(q, q.currentStep, q.nextNoteTime)
         IN  IF noted.raised THEN noted
             ELSE SchedulerLoop([noted EXCEPT
                                    !.nextNoteTime = @ + Sixteenth(bpm),
                                    !.currentStep = AdvanceStep(@)])
    ELSE q

\* scheduler(): the loop, then this.timerID = window.setTimeout(this.scheduler,
\* 25.0) unless the loop raised
SchedulerOn(q) ==
    LET looped == SchedulerLoop(q)
    IN  IF looped.raised THEN looped
        ELSE [looped EXCEPT !.timersPending = @ + 1, !.timerLive = TRUE]

\* a start that resumes from the cursor and the time the last run left
StartPlaybackKeepCursor(q) ==
    SchedulerOn([q EXCEPT !.startTime = seqClock, !.scheduled = <<>>])

\* startPlayback()
StartPlaybackOn(q) ==
    SchedulerOn([q EXCEPT !.currentStep = 0, !.nextNoteTime = seqClock,
                          !.startTime = seqClock, !.scheduled = <<>>])

\* a stop that forgets timerID without clearing the timeout
StopPlaybackForgetTimer(q) ==
    [q EXCEPT !.timerLive = FALSE,
              !.melodySource = IF @ = None THEN @
                               ELSE Some([@[1] EXCEPT !.stopped = TRUE]),
              !.currentStep = 0]

\* a stop that leaves the timer and timerID alone
StopPlaybackKeepTimer(q) ==
    [q EXCEPT !.melodySource = IF @ = None THEN @
                               ELSE Some([@[1] EXCEPT !.stopped = TRUE]),
              !.currentStep = 0]

\* stopPlayback()
StopPlaybackOn(q) ==
    [q EXCEPT !.timersPending = IF q.timerLive THEN @ - 1 ELSE @,
              !.timerLive = FALSE,
              !.melodySource = IF @ = None THEN @
                               ELSE Some([@[1] EXCEPT !.stopped = TRUE]),
              !.currentStep = 0]

SeqInit ==
    /\ patterns = [p \in 0..3 |-> EmptyPattern]
    /\ currentPattern = 0
    /\ bpm = 140
    /\ seqIsPlaying = FALSE
    /\ currentStep = 0
    /\ melodyBuffer = None
    /\ soundsLoaded = FALSE
    /\ nextNoteTime = 0
    /\ timersPending = 0
    /\ timerLive = FALSE
    /\ melodySource = None
    /\ bpmDrag = None
    /\ gesture = None
    /\ exportStage = "idle"
    /\ exportJob = None
    /\ seqClock = 0
    /\ seqTicks = 0
    /\ startTime = 0
    /\ scheduled = <<>>
    /\ exported = None

\* connectedCallback() resumes after drumMachine.loadSamples()
SamplesLoaded ==
    /\ ~soundsLoaded
    /\ drumMachine.loaded
    /\ soundsLoaded' = TRUE
    /\ UNCHANGED <<patterns, currentPattern, bpm, seqIsPlaying, currentStep,
                   melodyBuffer, nextNoteTime, timersPending, timerLive,
                   melodySource, bpmDrag, gesture, exportStage, exportJob,
                   seqClock, seqTicks, startTime, scheduled, exported>>
    /\ UNCHANGED edVars
    /\ UNCHANGED dmVars
    /\ UNCHANGED wavVars
    /\ UNCHANGED auxVars

\* recordMelody: recordingDuration = barDuration * 4, at the tempo `b`
RecordingDuration(b) == 4 * (SixtyOverBpm(b) * 4)

\* handleRecordingFinished resumes after decodeAudioData, with the recording
\* that recordMelody asked for while the tempo was `recordedBpm`
RecordingDecoded(recordedBpm) ==
    /\ melodyBuffer' = Some(RecordingDuration(recordedBpm))
    /\ UNCHANGED <<patterns, currentPattern, bpm, seqIsPlaying, currentStep,
                   soundsLoaded, nextNoteTime, timersPending, timerLive,
                   melodySource, bpmDrag, gesture, exportStage, exportJob,
                   seqClock, seqTicks, startTime, scheduled, exported>>
    /\ UNCHANGED edVars
    /\ UNCHANGED dmVars
    /\ UNCHANGED wavVars
    /\ UNCHANGED auxVars

\* togglePlayback()
TogglePlayback ==
    /\ IF ~soundsLoaded
       THEN /\ SetSeq(Sq)
            /\ UNCHANGED seqIsPlaying
       ELSE /\ seqIsPlaying' = ~seqIsPlaying
            /\ SetSeq(IF ~seqIsPlaying THEN StartPlaybackOn(Sq)
                      ELSE StopPlaybackOn(Sq))
    /\ UNCHANGED <<patterns, currentPattern, bpm, melodyBuffer, soundsLoaded,
                   bpmDrag, gesture, exportStage, exportJob, seqClock,
                   seqTicks, exported>>
    /\ UNCHANGED edVars
    /\ UNCHANGED <<drumMachine, loadPromises>>
    /\ UNCHANGED wavVars
    /\ UNCHANGED auxVars

\* disconnectedCallback(): stopPlayback(); isPlaying is left as it was
DisconnectedCallback ==
    /\ SetSeq(StopPlaybackOn(Sq))
    /\ UNCHANGED <<patterns, currentPattern, bpm, seqIsPlaying, melodyBuffer,
                   soundsLoaded, bpmDrag, gesture, exportStage, exportJob,
                   seqClock, seqTicks, exported>>
    /\ UNCHANGED edVars
    /\ UNCHANGED <<drumMachine, loadPromises>>
    /\ UNCHANGED wavVars
    /\ UNCHANGED auxVars

\* A pending scheduler timer fires: either the one timerID names or another.
SchedulerTick(latest) ==
    /\ timersPending > 0
    /\ IF latest THEN timerLive ELSE timersPending > (IF timerLive THEN 1 ELSE 0)
    /\ SetSeq(SchedulerOn([Sq EXCEPT !.timersPending = @ - 1,
                                      !.timerLive = IF latest THEN FALSE ELSE @]))
    /\ UNCHANGED <<patterns, currentPattern, bpm, seqIsPlaying, melodyBuffer,
                   soundsLoaded, bpmDrag, gesture, exportStage, exportJob,
                   seqClock, seqTicks, exported>>
    /\ UNCHANGED edVars
    /\ UNCHANGED <<drumMachine, loadPromises>>
    /\ UNCHANGED wavVars
    /\ UNCHANGED auxVars

\* The audio clock of the live context advances.
AdvanceSeqClock ==
    /\ seqTicks < MaxSeqTicks
    /\ seqTicks' = seqTicks + 1
    /\ seqClock' = seqClock + SeqClockStep
    /\ UNCHANGED <<patterns, currentPattern, bpm, seqIsPlaying, currentStep,
                   melodyBuffer, soundsLoaded, nextNoteTime, timersPending,
                   timerLive, melodySource, bpmDrag, gesture, exportStage,
                   exportJob, startTime, scheduled, exported>>
    /\ UNCHANGED edVars
    /\ UNCHANGED dmVars
    /\ UNCHANGED wavVars
    /\ UNCHANGED auxVars

\* changePattern(patternIndex)
ChangePattern(patternIndex) ==
    /\ currentPattern' = patternIndex
    /\ UNCHANGED <<patterns, bpm, seqIsPlaying, currentStep, melodyBuffer,
                   soundsLoaded, nextNoteTime, timersPending, timerLive,
                   melodySource, bpmDrag, gesture, exportStage, exportJob,
                   seqClock, seqTicks, startTime, scheduled, exported>>
    /\ UNCHANGED edVars
    /\ UNCHANGED dmVars
    /\ UNCHANGED wavVars
    /\ UNCHANGED auxVars

\* a preset load that also restarts the bar at the clock's time
LoadLoopRewinds(loopName) ==
    /\ patterns' = [patterns EXCEPT ![currentPattern] = PremadeLoops[loopName].pattern]
    /\ bpm' = PremadeLoops[loopName].bpm
    /\ currentStep' = 0
    /\ nextNoteTime' = seqClock
    /\ UNCHANGED <<currentPattern, seqIsPlaying, melodyBuffer,
                   soundsLoaded, timersPending, timerLive,
                   melodySource, bpmDrag, gesture, exportStage, exportJob,
                   seqClock, seqTicks, startTime, scheduled, exported>>
    /\ UNCHANGED edVars
    /\ UNCHANGED dmVars
    /\ UNCHANGED wavVars
    /\ UNCHANGED auxVars

\* values the loop selector can hand over that name no preset: the
\* placeholder option, and a name that PREMADE_LOOPS does not hold
UnknownLoopNames == {"", "Dubstep"}

\* a preset load that writes the preset into every pattern slot
LoadLoopEverySlot(loopName) ==
    IF loopName \notin LoopNames
    THEN [patterns |-> patterns, bpm |-> bpm]
    ELSE [patterns |-> [p \in 0..3 |-> PremadeLoops[loopName].pattern],
          bpm |-> PremadeLoops[loopName].bpm]

\* the patterns and the bpm that loadLoop(loopName) leaves
LoadLoopOn(loopName) ==
    IF loopName \notin LoopNames
    THEN [patterns |-> patterns, bpm |-> bpm]
    ELSE [patterns |-> [patterns EXCEPT
                           ![currentPattern] = PremadeLoops[loopName].pattern],
          bpm |-> PremadeLoops[loopName].bpm]

\* handleLoopChange / loadLoop(loopName)
LoadLoop(loopName) ==
    /\ patterns' = LoadLoopOn(loopName).patterns
    /\ bpm' = LoadLoopOn(loopName).bpm
    /\ UNCHANGED <<currentPattern, seqIsPlaying, currentStep, melodyBuffer,
                   soundsLoaded, nextNoteTime, timersPending, timerLive,
                   melodySource, bpmDrag, gesture, exportStage, exportJob,
                   seqClock, seqTicks, startTime, scheduled, exported>>
    /\ UNCHANGED edVars
    /\ UNCHANGED dmVars
    /\ UNCHANGED wavVars
    /\ UNCHANGED auxVars

\* handleBpmDragStart
HandleBpmDragStart ==
    /\ bpmDrag = None
    /\ bpmDrag' = Some(bpm)
    /\ UNCHANGED <<patterns, currentPattern, bpm, seqIsPlaying, currentStep,
                   melodyBuffer, soundsLoaded, nextNoteTime, timersPending,
                   timerLive, melodySource, gesture, exportStage, exportJob,
                   seqClock, seqTicks, startTime, scheduled, exported>>
    /\ UNCHANGED edVars
    /\ UNCHANGED dmVars
    /\ UNCHANGED wavVars
    /\ UNCHANGED auxVars

\* pointer coordinates (clientY) come in fractions of a pixel: eighths here
EighthsPerPixel == 8

\* Math.round(x) of x given in eighths: the nearest integer, halves upwards
MathRound(x) == (2 * x + EighthsPerPixel) \div (2 * EighthsPerPixel)

\* a tempo clamp without the lower limit
ClampBpmAbove(newBpm) ==
    MathRound(Min(200 * EighthsPerPixel, newBpm))

\* Math.round(Math.max(60, Math.min(200, newBpm))), newBpm given in eighths
ClampBpm(newBpm) ==
    MathRound(Max(60 * EighthsPerPixel, Min(200 * EighthsPerPixel, newBpm)))

\* pointer travel of a tempo drag, in eighths of a pixel upwards from where
\* it began: 50 pixels down, 200 pixels up
BpmDragDeltas == {-400, 1600}

\* handleBpmDragMove, for the pointer `delta` eighths of a pixel above the
\* drag's start
HandleBpmDragMove(delta) ==
    /\ bpmDrag # None
    /\ bpm' = ClampBpm(bpmDrag[1] * EighthsPerPixel + delta)
    /\ UNCHANGED <<patterns, currentPattern, seqIsPlaying, currentStep,
                   melodyBuffer, soundsLoaded, nextNoteTime, timersPending,
                   timerLive, melodySource, bpmDrag, gesture, exportStage,
                   exportJob, seqClock, seqTicks, startTime, scheduled,
                   exported>>
    /\ UNCHANGED edVars
    /\ UNCHANGED dmVars
    /\ UNCHANGED wavVars
    /\ UNCHANGED auxVars

\* The tempo that a drag of `delta` pixels sets has a sixteenth that is a
\* whole number of clock units.
WholeSixteenth(delta) ==
    /\ bpmDrag # None
    /\ ClampBpm(bpmDrag[1] * EighthsPerPixel + delta) \in ModelBpms

\* handleBpmDragEnd
HandleBpmDragEnd ==
    /\ bpmDrag # None
    /\ bpmDrag' = None
    /\ UNCHANGED <<patterns, currentPattern, bpm, seqIsPlaying, currentStep,
                   melodyBuffer, soundsLoaded, nextNoteTime, timersPending,
                   timerLive, melodySource, gesture, exportStage, exportJob,
                   seqClock, seqTicks, startTime, scheduled, exported>>
    /\ UNCHANGED edVars
    /\ UNCHANGED dmVars
    /\ UNCHANGED wavVars
    /\ UNCHANGED auxVars

\* newPatterns[this.currentPattern][track][step] = value
SetCell(track, step, value) ==
    [patterns EXCEPT ![currentPattern][track][step] = value]

\* handleStepPointerDown with e.button === 2
StepRightClick(track, step) ==
    /\ patterns' = SetCell(track, step, None)
    /\ UNCHANGED <<currentPattern, bpm, seqIsPlaying, currentStep,
                   melodyBuffer, soundsLoaded, nextNoteTime, timersPending,
                   timerLive, melodySource, bpmDrag, gesture, exportStage,
                   exportJob, seqClock, seqTicks, startTime, scheduled,
                   exported>>
    /\ UNCHANGED edVars
    /\ UNCHANGED dmVars
    /\ UNCHANGED wavVars
    /\ UNCHANGED auxVars

\* handleStepPointerDown with another button: the gesture begins
HandleStepPointerDown(track, step) ==
    LET currentPitch == patterns[currentPattern][track][step]
    IN  /\ gesture = None
        /\ gesture' = Some([track |-> track, step |-> step,
                            stepDragStartPitch |-> IF currentPitch = None THEN 0
                                                   ELSE currentPitch[1],
                            currentPitch |-> currentPitch,
                            dragged |-> FALSE,
                            \* history, read by no handler: the pattern
                            \* shown when the pointer went down
                            shown |-> currentPattern])
        /\ patterns' = IF currentPitch = None THEN SetCell(track, step, Some(0))
                       ELSE patterns
        /\ UNCHANGED <<currentPattern, bpm, seqIsPlaying, currentStep,
                       melodyBuffer, soundsLoaded, nextNoteTime,
                       timersPending, timerLive, melodySource, bpmDrag,
                       exportStage, exportJob, seqClock, seqTicks, startTime,
                       scheduled, exported>>
        /\ UNCHANGED edVars
        /\ UNCHANGED dmVars
        /\ UNCHANGED wavVars
        /\ UNCHANGED auxVars

\* a pitch clamp without the lower limit
ClampPitchAbove(newPitch) ==
    MathRound(Min(2400 * EighthsPerPixel, newPitch))

\* Math.round(Math.max(-2400, Math.min(2400, newPitch))), newPitch in eighths
ClampPitch(newPitch) ==
    MathRound(Max(-2400 * EighthsPerPixel, Min(2400 * EighthsPerPixel, newPitch)))

\* pointer travel of a step drag, in eighths of a pixel upwards from where
\* it began: 300 pixels down
StepDragDeltas == {-2400}

\* moveHandler of the gesture, for the pointer `delta` eighths of a pixel
\* above its start
StepMove(delta) ==
    /\ gesture # None
    /\ gesture' = Some([gesture[1] EXCEPT !.dragged = TRUE])
    /\ patterns' = SetCell(gesture[1].track, gesture[1].step,
                           Some(ClampPitch(gesture[1].stepDragStartPitch * EighthsPerPixel
                                           + delta * 12)))
    /\ UNCHANGED <<currentPattern, bpm, seqIsPlaying, currentStep,
                   melodyBuffer, soundsLoaded, nextNoteTime, timersPending,
                   timerLive, melodySource, bpmDrag, exportStage, exportJob,
                   seqClock, seqTicks, startTime, scheduled, exported>>
    /\ UNCHANGED edVars
    /\ UNCHANGED dmVars
    /\ UNCHANGED wavVars
    /\ UNCHANGED auxVars

\* upHandler of the gesture
StepUp ==
    /\ gesture # None
    /\ gesture' = None
    /\ patterns' = IF ~gesture[1].dragged /\ gesture[1].currentPitch # None
                   THEN SetCell(gesture[1].track, gesture[1].step, None)
                   ELSE patterns
    /\ UNCHANGED <<currentPattern, bpm, seqIsPlaying, currentStep,
                   melodyBuffer, soundsLoaded, nextNoteTime, timersPending,
                   timerLive, melodySource, bpmDrag, exportStage, exportJob,
                   seqClock, seqTicks, startTime, scheduled, exported>>
    /\ UNCHANGED edVars
    /\ UNCHANGED dmVars
    /\ UNCHANGED wavVars
    /\ UNCHANGED auxVars

\* The inner for loop of exportAudio at `step` from `track` on: the
\* offlineDrumMachine.play(track, time, pitch) calls it makes, in order.
RECURSIVE ExportStepPlays(_, _, _, _)
ExportStepPlays(grid, b, step, track) ==
    IF track >= 8 THEN <<>>
    ELSE LET pitch == grid[track][step]
         IN  (IF CellSounds(pitch)
              THEN <<<<track, ExportStepTime(step, b), pitch[1]>>>> ELSE <<>>)
                 \o ExportStepPlays(grid, b, step, track + 1)

\* The outer for loop of exportAudio from `step` on.
RECURSIVE ExportPlays(_, _, _)
ExportPlays(grid, b, step) ==
    IF step >= 16 THEN <<>>
    ELSE ExportStepPlays(grid, b, step, 0) \o ExportPlays(grid, b, step + 1)

\* exportAudio(drumsOnly, melodyOnly) up to its first await
ExportAudio(drumsOnly, melodyOnly) ==
    /\ exportStage = "idle"
    /\ ~drumsOnly => melodyBuffer # None
    /\ SetSeq(StopPlaybackOn(Sq))
    /\ exportStage' = "loading"
    /\ exportJob' = Some([drumsOnly |-> drumsOnly, melodyOnly |-> melodyOnly,
                          loopDuration |-> LoopDuration(bpm)])
    /\ UNCHANGED <<patterns, currentPattern, bpm, seqIsPlaying, melodyBuffer,
                   soundsLoaded, bpmDrag, gesture, seqClock, seqTicks,
                   exported>>
    /\ UNCHANGED edVars
    /\ UNCHANGED <<drumMachine, loadPromises>>
    /\ UNCHANGED wavVars
    /\ UNCHANGED auxVars

\* the DrumMachine after the play(index, time, pitchBend) calls `plays` from
\* the n-th on, made while the context's clock reads `now`
RECURSIVE PlayAll(_, _, _, _)
PlayAll(dm, plays, n, now) ==
    IF n > Len(plays) THEN dm
    ELSE PlayAll(DrumMachinePlay(dm, plays[n][1], Some(plays[n][2]),
                                 plays[n][3], now),
                 plays, n + 1, now)

\* new DrumMachine(offlineContext) after its loadSamples(), the voices in
\* `failed` having failed to load; exportAudio never calls its connect()
OfflineDrumMachine(failed) ==
    [NewDrumMachine EXCEPT
        !.samples = [i \in SampleIndices |->
                        IF i \in failed THEN None ELSE Some(i)],
        !.loaded = TRUE]

\* exportAudio resumes after offlineDrumMachine.loadSamples() and schedules;
\* the offline context's clock reads 0 until rendering starts
ExportSchedule(failed) ==
    /\ exportStage = "loading"
    /\ exportStage' = "rendering"
    /\ exported' =
         LET plays == IF ~exportJob[1].melodyOnly
                      THEN ExportPlays(patterns[currentPattern], bpm, 0)
                      ELSE <<>>
             melody == ~exportJob[1].drumsOnly /\ melodyBuffer # None
         IN  Some([loopDuration |-> exportJob[1].loopDuration,
                   plays |-> plays,
                   melody |-> melody,
                   bpm |-> bpm,
                   grid |-> patterns[currentPattern],
                   drumMachine |-> PlayAll(OfflineDrumMachine(failed), plays, 1, 0),
                   melodyNode |-> IF melody
                                  THEN Some([at |-> 0, buffer |-> melodyBuffer[1],
                                             dest |-> "destination"])
                                  ELSE None])
    /\ UNCHANGED <<patterns, currentPattern, bpm, seqIsPlaying, currentStep,
                   melodyBuffer, soundsLoaded, nextNoteTime, timersPending,
                   timerLive, melodySource, bpmDrag, gesture, exportJob,
                   seqClock, seqTicks, startTime, scheduled>>
    /\ UNCHANGED edVars
    /\ UNCHANGED dmVars
    /\ UNCHANGED wavVars
    /\ UNCHANGED auxVars

\* exportAudio resumes after offlineContext.startRendering() and downloads
ExportRendered ==
    /\ exportStage = "rendering"
    /\ exportStage' = "idle"
    /\ exportJob' = None
    /\ exported' = None
    /\ UNCHANGED <<patterns, currentPattern, bpm, seqIsPlaying, currentStep,
                   melodyBuffer, soundsLoaded, nextNoteTime, timersPending,
                   timerLive, melodySource, bpmDrag, gesture, seqClock,
                   seqTicks, startTime, scheduled>>
    /\ UNCHANGED edVars
    /\ UNCHANGED dmVars
    /\ UNCHANGED wavVars
    /\ UNCHANGED auxVars

\* One of the 8 attempts of loadSamples finishes: its buffer is stored when
\* fetch and decode succeeded (ok), its failure is caught and logged otherwise.
LoadAttemptEnds(index, ok) ==
    /\ loadPromises # None
    /\ index \in loadPromises[1]
    /\ drumMachine' = IF ok THEN StoreSample(drumMachine, index) ELSE drumMachine
    /\ loadPromises' = Some(loadPromises[1] \ {index})
    /\ UNCHANGED dmRaised
    /\ UNCHANGED wavVars
    /\ UNCHANGED auxVars
    /\ UNCHANGED seqVars
    /\ UNCHANGED edVars

\* loadSamples resumes after Promise.all(loadPromises): this.loaded = true
LoadSamplesResolves ==
    /\ loadPromises = Some({})
    /\ drumMachine' = [drumMachine EXCEPT !.loaded = TRUE]
    /\ loadPromises' = None
    /\ UNCHANGED dmRaised
    /\ UNCHANGED wavVars
    /\ UNCHANGED auxVars
    /\ UNCHANGED seqVars
    /\ UNCHANGED edVars

\* play() calls recorded in drumMachine.nodes
MaxPlays == 2

\* drumMachine.play(index, time, pitchBend) called on the live machine
Play(index, time, pitchBend) ==
    /\ Len(drumMachine.nodes) < MaxPlays
    /\ drumMachine' = DrumMachinePlay(drumMachine, index, time, pitchBend, seqClock)
    /\ dmRaised' = PlayRaises(drumMachine, index, time)
    /\ UNCHANGED loadPromises
    /\ UNCHANGED wavVars
    /\ UNCHANGED auxVars
    /\ UNCHANGED seqVars
    /\ UNCHANGED edVars

\* the arguments play() is called with: indices inside and outside 0..7, no
\* time, time 0 and a later time, two pitch offsets
PlayIndices == {-1, 0, 7, 8}

PlayTimes == {None, Some(0), Some(5)}

PlayPitches == {0, 1200}

\* The sample bank from the start of loadSamples, with play() called at any
\* moment.
BankNext ==
    \/ \E index \in SampleIndices, ok \in BOOLEAN : LoadAttemptEnds(index, ok)
    \/ LoadSamplesResolves
    \/ \E index \in PlayIndices, time \in PlayTimes, pitchBend \in PlayPitches :
          Play(index, time, pitchBend)

(***************************************************************************)
(* The WAV encoders                                                        *)
(***************************************************************************)
\* Samples are counted in units of 2^-16: a sample of x stands for x / 65536,
\* which a Float32Array holds exactly.
SampleDenominator == 65536

\* frames of the longest buffer that is encoded
MaxWavFrames == 2

\* the conversion of a Number to an integer type: truncation towards zero of
\* num / den
Trunc(num, den) ==
    IF num >= 0 THEN num \div den ELSE (num + den - 1) \div den

\* Math.max(-1, Math.min(1, channels[ch][i]))
ClampSample(x) == Max(-SampleDenominator, Min(SampleDenominator, x))

\* the editor's conversion: (0.5 + sample < 0 ? sample * 32768
\* : sample * 32767) | 0, where 0.5 + sample < 0 is the condition
EditorPcm(x) ==
    LET sample == ClampSample(x)
    IN  IF SampleDenominator + 2 * sample < 0
        THEN Trunc(sample * 32768, SampleDenominator)
        ELSE Trunc(sample * 32767, SampleDenominator)

\* the sequencer's conversion: sample < 0 ? sample * 32768 : sample * 32767,
\* made an integer by setInt16
SequencerPcm(x) ==
    LET sample == ClampSample(x)
    IN  IF sample < 0
        THEN Trunc(sample * 32768, SampleDenominator)
        ELSE Trunc(sample * 32767, SampleDenominator)

\* a 16-bit write with the high byte first
U16BE(val) == <<(val \div 256) % 256, val % 256>>

\* view.setUint16(pos, val, true): the low byte first
U16LE(val) == <<val % 256, (val \div 256) % 256>>

\* view.setUint32(pos, val, true)
U32LE(val) ==
    <<val % 256, (val \div 256) % 256, (val \div 65536) % 256,
      (val \div 16777216) % 256>>

\* view.setInt16(pos, val, true): two's complement, the low byte first
I16LE(val) == U16LE(val % 65536)

\* the editor's sample loop from frame i, channel ch on
RECURSIVE EditorSamples(_, _, _)
EditorSamples(buffer, i, ch) ==
    IF i >= BufLength(buffer) THEN <<>>
    ELSE IF ch >= buffer.numberOfChannels THEN EditorSamples(buffer, i + 1, 0)
    ELSE I16LE(EditorPcm(buffer.data[ch + 1][i + 1]))
            \o EditorSamples(buffer, i, ch + 1)

\* AudioEditor.downloadWav: the bytes of the file
EditorWav(buffer) ==
    LET numOfChan == buffer.numberOfChannels
        len == BufLength(buffer) * numOfChan * 2 + 44
    IN  U32LE(1179011410) \o U32LE(len - 8) \o U32LE(1163280727)
            \o U32LE(544501094) \o U32LE(16) \o U16LE(1) \o U16LE(numOfChan)
            \o U32LE(buffer.sampleRate)
            \o U32LE(buffer.sampleRate * 2 * numOfChan)
            \o U16LE(numOfChan * 2) \o U16LE(16)
            \o U32LE(1635017060) \o U32LE(len - 40 - 4)
            \o EditorSamples(buffer, 0, 0)

\* the sequencer's sample loop from frame i, channel ch on
RECURSIVE SequencerSamples(_, _, _)
SequencerSamples(buffer, i, ch) ==
    IF i >= BufLength(buffer) THEN <<>>
    ELSE IF ch >= buffer.numberOfChannels
         THEN SequencerSamples(buffer, i + 1, 0)
    ELSE I16LE(SequencerPcm(buffer.data[ch + 1][i + 1]))
            \o SequencerSamples(buffer, i, ch + 1)

\* DrumSequencer.downloadWav(buffer): the bytes of the file
SequencerWav(buffer) ==
    LET numOfChan == buffer.numberOfChannels
        len == BufLength(buffer) * numOfChan * 2 + 44
    IN  U32LE(1179011410) \o U32LE(len - 8) \o U32LE(1163280727)
            \o U32LE(544501094) \o U32LE(16) \o U16LE(1) \o U16LE(numOfChan)
            \o U32LE(buffer.sampleRate)
            \o U32LE(buffer.sampleRate * 2 * numOfChan)
            \o U16LE(numOfChan * 2) \o U16LE(16)
            \o U32LE(1635017060) \o U32LE(len - 40 - 4)
            \o SequencerSamples(buffer, 0, 0)

\* AudioEditor.downloadWav() on the buffer
EditorDownloadWav ==
    /\ wavBuffer # None
    /\ wavEditor' = Some(EditorWav(wavBuffer[1]))
    /\ UNCHANGED <<wavBuffer, wavSequencer>>
    /\ UNCHANGED <<edVars, seqVars, dmVars>>
    /\ UNCHANGED auxVars

\* DrumSequencer.downloadWav(buffer) on the buffer
SequencerDownloadWav ==
    /\ wavBuffer # None
    /\ wavSequencer' = Some(SequencerWav(wavBuffer[1]))
    /\ UNCHANGED <<wavBuffer, wavEditor>>
    /\ UNCHANGED <<edVars, seqVars, dmVars>>
    /\ UNCHANGED auxVars

\* sample rates of the contexts
WavRates == {44100, 48000}

\* sample values of the buffers whose layout is examined: -1, 0 and 0.5
LayoutSamples == {-65536, 0, 32768}

\* mono and stereo buffers of 1..MaxWavFrames frames
LayoutBuffers ==
    UNION { {[numberOfChannels |-> c, sampleRate |-> r, data |-> d] :
               r \in WavRates, d \in [1..c -> [1..f -> LayoutSamples]]} :
            c \in 1..2, f \in 1..MaxWavFrames }

\* the sample values from -1.125 to 1.125 in steps of 1/16, and the values
\* one and two units away from -1, -0.5, 0, 0.5 and 1
GridSamples ==
    {4096 * k : k \in -18..18}
        \cup {c + d : c \in {-65536, -32768, 0, 32768, 65536}, d \in -2..2}

\* one-sample buffers, one for each sample value
GridBuffers ==
    {[numberOfChannels |-> 1, sampleRate |-> 44100, data |-> <<<<x>>>>] :
        x \in GridSamples}

\* no buffer has been handed to an encoder
WavIdle == wavBuffer = None /\ wavEditor = None /\ wavSequencer = None

\* a buffer is about to be encoded
WavInit ==
    /\ wavBuffer \in {Some(b) : b \in LayoutBuffers \cup GridBuffers}
    /\ wavEditor = None
    /\ wavSequencer = None

\* Both encoders applied to the same buffer.
WavNext ==
    \/ EditorDownloadWav
    \/ SequencerDownloadWav

(***************************************************************************)
(* ApiKeyStorage                                                           *)
(***************************************************************************)
\* KEY_EXPIRY_MS, 24 hours, in units of 12 hours
KeyExpiry == 2

\* advances of Date.now()
MaxNow == 4

\* the API keys that are saved
ApiKeys == {"K1", "K2"}

\* decimal digits
Digits == <<"0", "1", "2", "3", "4", "5", "6", "7", "8", "9">>

\* Date.now().toString()
NumberToString(n) == Digits[n + 1]

\* a number, or NaN
NaN == [nan |-> TRUE, value |-> 0]

Number(n) == [nan |-> FALSE, value |-> n]

\* parseInt(timestamp, 10): the number a string of digits denotes, NaN for a
\* string that does not start with a digit
ParseInt(str) ==
    IF \E n \in 0..9 : Digits[n + 1] = str
    THEN Number(CHOOSE n \in 0..9 : Digits[n + 1] = str)
    ELSE NaN

\* a - b > c on Numbers: false when an operand is NaN
MinusGreater(a, b, c) == ~a.nan /\ ~b.nan /\ a.value - b.value > c

\* a - b <= c on Numbers: false when an operand is NaN
MinusAtMost(a, b, c) == ~a.nan /\ ~b.nan /\ a.value - b.value <= c

\* the base64 of the IV and the AES-GCM ciphertext of apiKey
Encrypted(apiKey) == IF apiKey = "K1" THEN "aXYxOmsx" ELSE "aXYyOmsy"

\* the text that decrypts from the stored string
Decrypted(base64) == CHOOSE apiKey \in ApiKeys : Encrypted(apiKey) = base64

\* !encrypted || !timestamp: the item is absent or the empty string
Missing(item) == item = None \/ item = Some("")

\* clearApiKey()
ClearedStorage == [encrypted |-> None, timestamp |-> None]

\* Date.now() - storedTime > KEY_EXPIRY_MS in retrieveApiKey
RetrieveExpired(now, stamp) ==
    MinusGreater(Number(now), ParseInt(stamp), KeyExpiry)

\* retrieveApiKey() on the storage `ls` at the time `now`; `decrypts` tells
\* whether the stored bytes decode and decrypt under the encryption key
RetrieveOn(ls, now, decrypts) ==
    IF Missing(ls.encrypted) \/ Missing(ls.timestamp)
    THEN [result |-> None, storage |-> ls]
    ELSE IF RetrieveExpired(now, ls.timestamp[1])
    THEN [result |-> None, storage |-> ClearedStorage]
    ELSE IF ~decrypts
    THEN [result |-> None, storage |-> ClearedStorage]
    ELSE [result |-> Some(Decrypted(ls.encrypted[1])), storage |-> ls]

\* hasValidApiKey() on the storage `ls` at the time `now`
HasValidOn(ls, now) ==
    IF Missing(ls.encrypted) \/ Missing(ls.timestamp) THEN FALSE
    ELSE MinusAtMost(Number(now), ParseInt(ls.timestamp[1]), KeyExpiry)

\* storeApiKey(apiKey): both items are written after the encryption
StoreApiKey(apiKey) ==
    /\ localStorage' = [encrypted |-> Some(Encrypted(apiKey)),
                        timestamp |-> Some(NumberToString(dateNow))]
    /\ storedAt' = Some(dateNow)
    /\ UNCHANGED <<dateNow, retrieved, validAnswer>>
    /\ UNCHANGED <<audioRecorder, app>>
    /\ UNCHANGED coreVars

\* retrieveApiKey()
RetrieveApiKey(decrypts) ==
    /\ localStorage' = RetrieveOn(localStorage, dateNow, decrypts).storage
    /\ storedAt' = IF localStorage'.encrypted = None THEN None ELSE storedAt
    /\ retrieved' = Some([result |-> RetrieveOn(localStorage, dateNow, decrypts).result,
                          now |-> dateNow,
                          entry |-> ~Missing(localStorage.encrypted)
                                       /\ ~Missing(localStorage.timestamp),
                          storedAt |-> storedAt,
                          after |-> localStorage'])
    /\ UNCHANGED <<dateNow, validAnswer>>
    /\ UNCHANGED <<audioRecorder, app>>
    /\ UNCHANGED coreVars

\* hasValidApiKey()
HasValidApiKey ==
    /\ validAnswer' = Some([answer |-> HasValidOn(localStorage, dateNow),
                            now |-> dateNow,
                            entry |-> ~Missing(localStorage.encrypted)
                                         /\ ~Missing(localStorage.timestamp),
                            storedAt |-> storedAt])
    /\ UNCHANGED <<localStorage, dateNow, storedAt, retrieved>>
    /\ UNCHANGED <<audioRecorder, app>>
    /\ UNCHANGED coreVars

\* clearApiKey()
ClearApiKey ==
    /\ localStorage' = ClearedStorage
    /\ storedAt' = None
    /\ UNCHANGED <<dateNow, retrieved, validAnswer>>
    /\ UNCHANGED <<audioRecorder, app>>
    /\ UNCHANGED coreVars

\* time passes
AdvanceDateNow ==
    /\ dateNow < MaxNow
    /\ dateNow' = dateNow + 1
    /\ UNCHANGED <<localStorage, storedAt, retrieved, validAnswer>>
    /\ UNCHANGED <<audioRecorder, app>>
    /\ UNCHANGED coreVars

\* the timestamp items a page may find in its storage: the one a storeApiKey
\* at time 0 wrote, none, an empty one and one that is not a number
FoundTimestamps == {Some("0"), None, Some(""), Some("undefined")}

\* nothing is stored
KeyIdle ==
    /\ localStorage = ClearedStorage
    /\ dateNow = 0
    /\ storedAt = None
    /\ retrieved = None
    /\ validAnswer = None

\* the page is opened at time 0 over the storage of an earlier visit
KeyInit ==
    /\ \/ localStorage = ClearedStorage /\ storedAt = None
       \/ /\ localStorage \in [encrypted : {Some(Encrypted("K1"))},
                                timestamp : FoundTimestamps]
          /\ storedAt = Some(0)
    /\ dateNow = 0
    /\ retrieved = None
    /\ validAnswer = None

\* ApiKeyStorage used over time.
KeyNext ==
    \/ \E apiKey \in ApiKeys : StoreApiKey(apiKey)
    \/ \E decrypts \in BOOLEAN : RetrieveApiKey(decrypts)
    \/ HasValidApiKey
    \/ ClearApiKey
    \/ AdvanceDateNow

\* AudioRecorder.MAX_DURATION, in milliseconds
MaxDuration == 210000

\* the recordings a behaviour may start
MaxRecordings == 3

\* the durations start() is called with: none (the default), and the four
\* bars of recordMelody at 60 bpm, in milliseconds
RecordDurations == {None, Some(16000)}

\* new AudioRecorder(sourceNode)
NewAudioRecorder ==
    [mediaRecorder |-> 0, recordedChunks |-> <<>>, timeoutId |-> None,
     destination |-> 0, recorders |-> <<>>, connected |-> {}, timers |-> {},
     events |-> <<>>, finished |-> <<>>]

\* this.mediaRecorder?.state === 'recording'
IsRecording(rec) ==
    rec.mediaRecorder # 0 /\ rec.recorders[rec.mediaRecorder] = "recording"

\* start(duration) of the n-th recording: chunks are labelled with the
\* MediaRecorder that produced them
RecorderStartOn(rec, duration) ==
    IF IsRecording(rec) THEN rec
    ELSE LET n == Len(rec.recorders) + 1
         IN  [rec EXCEPT
                 !.destination = n,
                 !.connected = @ \cup {n},
                 !.mediaRecorder = n,
                 !.recorders = Append(@, "recording"),
                 !.recordedChunks = <<>>,
                 !.timers = @ \cup {[id |-> n,
                                     delay |-> IF duration = None THEN MaxDuration
                                               ELSE duration[1]]},
                 !.timeoutId = Some(n)]

\* clearTimeout(this.timeoutId); this.timeoutId = null
ClearTimeoutOn(rec) ==
    IF rec.timeoutId = None THEN rec
    ELSE [rec EXCEPT !.timers = {t \in @ : t.id # rec.timeoutId[1]},
                     !.timeoutId = None]

\* MediaRecorder.stop(): the recorder is inactive at once, and its
\* 'dataavailable' and 'stop' events are queued
MediaRecorderStop(rec) ==
    IF ~IsRecording(rec) THEN rec
    ELSE [rec EXCEPT !.recorders[rec.mediaRecorder] = "inactive",
                     !.events = @ \o <<[recorder |-> rec.mediaRecorder,
                                        type |-> "dataavailable"],
                                       [recorder |-> rec.mediaRecorder,
                                        type |-> "stop"]>>]

\* a stop() that leaves the auto-stop timer pending
RecorderStopKeepTimer(rec) == MediaRecorderStop(rec)

\* stop()
RecorderStopOn(rec) == ClearTimeoutOn(MediaRecorderStop(rec))

\* start(duration)
RecorderStart(duration) ==
    /\ IsRecording(audioRecorder) \/ Len(audioRecorder.recorders) < MaxRecordings
    /\ audioRecorder' = RecorderStartOn(audioRecorder, duration)
    /\ UNCHANGED <<keyVars, app>>
    /\ UNCHANGED coreVars

\* stop()
RecorderStop ==
    /\ audioRecorder' = RecorderStopOn(audioRecorder)
    /\ UNCHANGED <<keyVars, app>>
    /\ UNCHANGED coreVars

\* The auto-stop timer t fires: () => { this.stop(); }
AutoStopFires(t) ==
    /\ t \in audioRecorder.timers
    /\ audioRecorder' =
          RecorderStopOn([audioRecorder EXCEPT !.timers = @ \ {t}])
    /\ UNCHANGED <<keyVars, app>>
    /\ UNCHANGED coreVars

\* mediaRecorder.ondataavailable of the recorder whose event is the oldest
\* queued; `hasData` is event.data.size > 0
OnDataAvailable(hasData) ==
    /\ audioRecorder.events # <<>>
    /\ Head(audioRecorder.events).type = "dataavailable"
    /\ audioRecorder' =
          [audioRecorder EXCEPT
              !.events = Tail(@),
              !.recordedChunks =
                  IF hasData
                  THEN Append(@, Head(audioRecorder.events).recorder)
                  ELSE @]
    /\ UNCHANGED <<keyVars, app>>
    /\ UNCHANGED coreVars

\* mediaRecorder.onstop of the recorder whose event is the oldest queued
OnStop ==
    /\ audioRecorder.events # <<>>
    /\ Head(audioRecorder.events).type = "stop"
    /\ audioRecorder' =
          [audioRecorder EXCEPT
              !.events = Tail(@),
              !.finished = Append(@, [recorder |-> Head(audioRecorder.events).recorder,
                                      detail |-> audioRecorder.recordedChunks]),
              !.connected = IF audioRecorder.destination # 0
                            THEN @ \ {audioRecorder.destination}
                            ELSE @]
    /\ UNCHANGED <<keyVars, app>>
    /\ UNCHANGED coreVars

RecorderIdle == audioRecorder = NewAudioRecorder

\* The recorder started and stopped by hand and by its timer.
RecorderNext ==
    \/ \E duration \in RecordDurations : RecorderStart(duration)
    \/ RecorderStop
    \/ \E t \in audioRecorder.timers : AutoStopFires(t)
    \/ \E hasData \in BOOLEAN : OnDataAvailable(hasData)
    \/ OnStop

\* process.env.API_KEY of the build: none, or a key
EnvApiKeys == {None, Some("K0")}

\* the page loads and key saves of a behaviour
MaxSaves == 3

\* new GoogleGenAI({ apiKey })
GoogleGenAI(apiKey) == [apiKey |-> apiKey]

\* new LiveMusicHelper(ai, model): the helper keeps the client it is given
LiveMusicHelper(ai) == [client |-> ai]

\* initializeAI() with `stored` the result of retrieveApiKey()
InitializeAI(stored, env) ==
    LET apiKey == IF stored = None THEN env ELSE stored
    IN  IF apiKey = None THEN None ELSE Some(GoogleGenAI(apiKey[1]))

\* main() with `client` the result of initializeAI(): the client, the helper,
\* the component's helper and modal flag, whether the timer that shows the
\* modal is pending, the key the modal has stored and not yet announced, and
\* the number of page loads and saves so far
MainOn(client, n) ==
    LET helper == IF client = None THEN None
                  ELSE Some(LiveMusicHelper(client[1]))
    IN  [ai |-> client,
         liveMusicHelper |-> helper,
         pdjMidi |-> [liveMusicHelper |-> helper, isApiModalOpen |-> FALSE],
         modalTimer |-> client = None,
         saving |-> None,
         saves |-> n]

\* the 'api-key-saved' listener of main() for the key `apiKey`
ApiKeySavedOn(a, apiKey) ==
    LET client == GoogleGenAI(apiKey)
        helper == IF a.liveMusicHelper = None
                  THEN Some(LiveMusicHelper(client))
                  ELSE a.liveMusicHelper
    IN  [a EXCEPT !.ai = Some(client),
                  !.liveMusicHelper = helper,
                  !.pdjMidi.liveMusicHelper = helper]

\* The page is loaded: main() runs over the storage as it is now.
PageLoad(env) ==
    LET found == RetrieveOn(localStorage, dateNow, TRUE)
    IN  /\ app.saves < MaxSaves
        /\ app' = MainOn(InitializeAI(found.result, env), app.saves + 1)
        /\ localStorage' = found.storage
        /\ storedAt' = IF found.storage.encrypted = None THEN None ELSE storedAt
        /\ UNCHANGED <<dateNow, retrieved, validAnswer>>
        /\ UNCHANGED audioRecorder
        /\ UNCHANGED coreVars

\* setTimeout(() => pdjMidi.showApiModal(), 100) of a page without a client
ShowApiModal ==
    /\ app.modalTimer
    /\ app' = [app EXCEPT !.modalTimer = FALSE, !.pdjMidi.isApiModalOpen = TRUE]
    /\ UNCHANGED <<keyVars, audioRecorder>>
    /\ UNCHANGED coreVars

\* toggleApiModal(), from the key button
ToggleApiModal ==
    /\ app.saving = None
    /\ app' = [app EXCEPT !.pdjMidi.isApiModalOpen = ~@]
    /\ UNCHANGED <<keyVars, audioRecorder>>
    /\ UNCHANGED coreVars

\* ApiKeyModal.handleSave() up to the end of storeApiKey
ModalHandleSave(apiKey) ==
    /\ app.pdjMidi.isApiModalOpen
    /\ app.saving = None
    /\ app.saves < MaxSaves
    /\ app' = [app EXCEPT !.saving = Some(apiKey), !.saves = @ + 1]
    /\ localStorage' = [encrypted |-> Some(Encrypted(apiKey)),
                        timestamp |-> Some(NumberToString(dateNow))]
    /\ storedAt' = Some(dateNow)
    /\ UNCHANGED <<dateNow, retrieved, validAnswer>>
    /\ UNCHANGED audioRecorder
    /\ UNCHANGED coreVars

\* handleSave() resumes and dispatches 'save': handleApiModalSave closes the
\* modal and dispatches 'api-key-saved', and main()'s listener handles it
ApiKeySaved ==
    /\ app.saving # None
    /\ app' = [ApiKeySavedOn(app, app.saving[1]) EXCEPT
                  !.saving = None, !.pdjMidi.isApiModalOpen = FALSE]
    /\ UNCHANGED <<keyVars, audioRecorder>>
    /\ UNCHANGED coreVars

\* a page that has not been loaded yet
AppIdle == app = MainOn(None, 0)

\* The page over its storage: loads, the key modal, and time passing.
AppNext ==
    \/ \E env \in EnvApiKeys : PageLoad(env)
    \/ ShowApiModal
    \/ ToggleApiModal
    \/ \E apiKey \in ApiKeys : ModalHandleSave(apiKey)
    \/ ApiKeySaved
    \/ AdvanceDateNow

\* The editor with every handler and event.
EdNext ==
    \/ \E b \in Blobs : SetAudioBlob(b)
    \/ \E l \in decoding : DecodeResolved(l)
    \/ \E l \in decoding : DecodeRejected(l)
    \/ \E w \in ClientWidths : Resize(w)
    \/ \E x \in 0..clientWidth : HandleCanvasDown(x)
    \/ \E x \in 0..clientWidth : HandleCanvasMove(x)
    \/ HandleCanvasUp
    \/ CutSelection
    \/ PlayPause
    \/ Stop
    \/ Rewind
    \/ \E latest \in BOOLEAN : LoopFrame(latest)
    \/ NodeEnds
    \/ OnEnded
    \/ DownloadWav
    \/ AdvanceEdClock

\* One recording is opened in the editor and edited; the audio clock stands
\* still.
CutNext ==
    \/ \E b \in Blobs : nLoads = 0 /\ SetAudioBlob(b)
    \/ \E l \in decoding : DecodeResolved(l)
    \/ \E w \in ClientWidths : Resize(w)
    \/ \E x \in 0..clientWidth : HandleCanvasDown(x)
    \/ \E x \in 0..clientWidth : HandleCanvasMove(x)
    \/ HandleCanvasUp
    \/ CutSelection
    \/ PlayPause
    \/ Stop
    \/ \E latest \in BOOLEAN : LoopFrame(latest)
    \/ OnEnded
    \/ DownloadWav

\* One recording is opened and played, paused, stopped and rewound while the
\* audio clock advances; a playback is started or rewound only during the
\* first MaxEdTicks advances of the clock.
PlaybackNext ==
    \/ \E b \in Blobs : nLoads = 0 /\ SetAudioBlob(b)
    \/ \E l \in decoding : DecodeResolved(l)
    \/ (isPlaying \/ edTicks < MaxEdTicks) /\ PlayPause
    \/ Stop
    \/ edTicks < MaxEdTicks /\ Rewind
    \/ \E latest \in BOOLEAN : LoopFrame(latest)
    \/ NodeEnds
    \/ OnEnded
    \/ AdvanceEdClock

\* Recordings are opened in the editor one after the other while it is used;
\* the audio clock stands still and the window keeps its size.
LoadNext ==
    \/ \E b \in Blobs : SetAudioBlob(b)
    \/ \E l \in decoding : DecodeResolved(l)
    \/ \E l \in decoding : DecodeRejected(l)
    \/ \E x \in 0..clientWidth : HandleCanvasDown(x)
    \/ \E x \in 0..clientWidth : HandleCanvasMove(x)
    \/ HandleCanvasUp
    \/ CutSelection
    \/ PlayPause
    \/ Stop
    \/ \E latest \in BOOLEAN : LoopFrame(latest)
    \/ OnEnded

\* No pointer gesture is under way: a button can be clicked.
PointerUp == bpmDrag = None /\ gesture = None

\* startPlayback has not run yet: every start schedules step 0 at once.
NeverStarted == scheduled = <<>>

\* the voices whose sample may fail to load, the first of them the Kick row
SilentVoices == {1, 7}

\* the cells set on the rows of a voice that loads and of one that may not
SilentCells == {<<0, 0>>, <<1, 1>>}

\* advances of the audio clock while voices are missing
MaxSilentTicks == 2

\* The sequencer from the start of loadSamples: some voices fail to load,
\* play() is called before the transport is used, then the transport runs
\* over a pattern that triggers a missing voice.
SilentNext ==
    \/ \E index \in SampleIndices, ok \in BOOLEAN :
          (ok \/ index \in SilentVoices) /\ LoadAttemptEnds(index, ok)
    \/ LoadSamplesResolves
    \/ SamplesLoaded
    \/ \E index \in PlayIndices, time \in PlayTimes, pitchBend \in PlayPitches :
          /\ ~soundsLoaded /\ drumMachine.nodes = <<>>
          /\ Play(index, time, pitchBend)
    \/ \E c \in SilentCells : NeverStarted /\ HandleStepPointerDown(c[1], c[2])
    \/ StepUp
    \/ PointerUp /\ TogglePlayback
    \/ \E latest \in BOOLEAN : SchedulerTick(latest)
    \/ seqTicks < MaxSilentTicks /\ AdvanceSeqClock

\* The sequencer's transport, tempo, presets and export; the tempo and the
\* pattern are chosen before the first start, exports are made after it.
SchedNext ==
    \/ SamplesLoaded
    \/ PointerUp /\ TogglePlayback
    \/ DisconnectedCallback
    \/ \E latest \in BOOLEAN : SchedulerTick(latest)
    \/ AdvanceSeqClock
    \/ \E loopName \in LoopNames : NeverStarted /\ LoadLoop(loopName)
    \/ NeverStarted /\ HandleBpmDragStart
    \/ \E delta \in BpmDragDeltas :
          WholeSixteenth(delta) /\ HandleBpmDragMove(delta)
    \/ HandleBpmDragEnd
    \/ \E drumsOnly, melodyOnly \in BOOLEAN :
          /\ PointerUp /\ ~NeverStarted
          /\ ~(drumsOnly /\ melodyOnly)
          /\ ExportAudio(drumsOnly, melodyOnly)
    \/ ExportSchedule({})
    \/ ExportRendered

\* the cells of the Kick row that a four-on-the-floor pattern sets
KickCells == {<<1, 0>>, <<1, 4>>, <<1, 8>>, <<1, 12>>}

\* The transport at the initial tempo over a pattern clicked together, before
\* the first start, on the Kick row.
KickNext ==
    \/ SamplesLoaded
    \/ PointerUp /\ TogglePlayback
    \/ \E latest \in BOOLEAN : SchedulerTick(latest)
    \/ AdvanceSeqClock
    \/ \E c \in KickCells : NeverStarted /\ HandleStepPointerDown(c[1], c[2])
    \/ StepUp

\* advances of the audio clock while the pattern is being edited
MaxEditTicks == 2

\* the cells the pointer edits while the sequencer runs
EditCells == {<<0, 0>>, <<1, 1>>}

\* The transport with the pattern edited and switched while it runs.
EditNext ==
    \/ SamplesLoaded
    \/ PointerUp /\ TogglePlayback
    \/ \E latest \in BOOLEAN : SchedulerTick(latest)
    \/ seqTicks < MaxEditTicks /\ AdvanceSeqClock
    \/ \E patternIndex \in 0..1 : ChangePattern(patternIndex)
    \/ \E c \in EditCells : StepRightClick(c[1], c[2])
    \/ \E c \in EditCells : HandleStepPointerDown(c[1], c[2])
    \/ \E delta \in StepDragDeltas : StepMove(delta)
    \/ StepUp

\* The transport with a recorded melody, at the initial tempo.
MelodyNext ==
    \/ SamplesLoaded
    \/ RecordingDecoded(bpm)
    \/ TogglePlayback
    \/ DisconnectedCallback
    \/ \E latest \in BOOLEAN : SchedulerTick(latest)
    \/ AdvanceSeqClock

\* clock advances while edits race with the transport
MaxRetroTicks == 1

\* the cell edited while the transport runs
RetroCells == {<<1, 1>>}

\* pointer travel of a tempo drag while the transport runs: 50 pixels down
RetroBpmDeltas == {-400}

\* the preset loaded while the transport runs
RetroLoops == {"BoomBap"}

\* Every kind of edit (step click, drag and clear, pattern switch, preset
\* load, tempo drag) against a running transport, over the first ticks.
RetroNext ==
    \/ SamplesLoaded
    \/ PointerUp /\ TogglePlayback
    \/ \E latest \in BOOLEAN : SchedulerTick(latest)
    \/ seqTicks < MaxRetroTicks /\ AdvanceSeqClock
    \/ \E patternIndex \in {1} : ChangePattern(patternIndex)
    \/ \E loopName \in RetroLoops : LoadLoop(loopName)
    \/ PointerUp /\ HandleBpmDragStart
    \/ \E delta \in RetroBpmDeltas :
          WholeSixteenth(delta) /\ HandleBpmDragMove(delta)
    \/ HandleBpmDragEnd
    \/ \E c \in RetroCells : StepRightClick(c[1], c[2])
    \/ \E c \in RetroCells : PointerUp /\ HandleStepPointerDown(c[1], c[2])
    \/ \E delta \in StepDragDeltas : StepMove(delta)
    \/ StepUp

\* the cell edited in the grid's last corner
ShapeCells == {<<7, 15>>}

\* pointer travel of the step drags, in eighths of a pixel: 300 pixels either
\* way, and an eighth of a pixel (1.5 cents) either way
ShapeDragDeltas == {-2400, -1, 1, 2400}

\* A drag of a fraction of a pixel begins at the default pitch.
FineDragFromDefault(delta) ==
    delta \in {-1, 1} => gesture # None /\ gesture[1].stepDragStartPitch = 0

\* The grid under clicks, right-clicks, drags, pattern switches and presets.
ShapeNext ==
    \/ \E c \in ShapeCells : StepRightClick(c[1], c[2])
    \/ \E c \in ShapeCells : HandleStepPointerDown(c[1], c[2])
    \/ \E delta \in ShapeDragDeltas :
          FineDragFromDefault(delta) /\ StepMove(delta)
    \/ StepUp
    \/ \E patternIndex \in {0, 3} : ChangePattern(patternIndex)
    \/ \E loopName \in LoopNames \cup UnknownLoopNames : LoadLoop(loopName)

\* pointer travel of the tempo drags, in eighths of a pixel: 141 pixels, 50
\* pixels, 7 pixels, 1 pixel, half a pixel and an eighth of a pixel, each
\* in both directions
TempoDragDeltas == {-1128, -400, -56, -8, -4, -1, 1, 4, 8, 56, 400, 1128}

\* The tempo under drags and preset loads.
TempoNext ==
    \/ HandleBpmDragStart
    \/ \E delta \in TempoDragDeltas : HandleBpmDragMove(delta)
    \/ HandleBpmDragEnd
    \/ \E loopName \in LoopNames : LoadLoop(loopName)

\* the cell set before and during an export
ExportCells == {<<0, 0>>, <<1, 15>>}

\* the sets of voices that can fail to load in the offline context
ExportFailures == {{}, {1}}

\* Exports of every kind, with a recording, cells set and cleared and
\* presets loaded before and while an export is under way.
ExportNext ==
    \/ RecordingDecoded(bpm)
    \/ \E loopName \in RetroLoops : LoadLoop(loopName)
    \/ \E c \in ExportCells : StepRightClick(c[1], c[2])
    \/ \E c \in ExportCells : HandleStepPointerDown(c[1], c[2])
    \/ StepUp
    \/ \E drumsOnly, melodyOnly \in BOOLEAN :
          /\ PointerUp
          /\ ~(drumsOnly /\ melodyOnly)
          /\ ExportAudio(drumsOnly, melodyOnly)
    \/ \E failed \in ExportFailures : ExportSchedule(failed)
    \/ ExportRendered

\* The sequencer with every handler and event.
SeqNext ==
    \/ SamplesLoaded
    \/ \E index \in SampleIndices, ok \in BOOLEAN : LoadAttemptEnds(index, ok)
    \/ LoadSamplesResolves
    \/ \E index \in PlayIndices, time \in PlayTimes, pitchBend \in PlayPitches :
          Play(index, time, pitchBend)
    \/ \E recordedBpm \in ModelBpms : RecordingDecoded(recordedBpm)
    \/ DisconnectedCallback
    \/ TogglePlayback
    \/ \E latest \in BOOLEAN : SchedulerTick(latest)
    \/ AdvanceSeqClock
    \/ \E patternIndex \in 0..3 : ChangePattern(patternIndex)
    \/ \E loopName \in LoopNames \cup UnknownLoopNames : LoadLoop(loopName)
    \/ HandleBpmDragStart
    \/ \E delta \in BpmDragDeltas :
          WholeSixteenth(delta) /\ HandleBpmDragMove(delta)
    \/ HandleBpmDragEnd
    \/ \E track \in Tracks, step \in Steps : StepRightClick(track, step)
    \/ \E track \in Tracks, step \in Steps : HandleStepPointerDown(track, step)
    \/ \E delta \in StepDragDeltas : StepMove(delta)
    \/ StepUp
    \/ \E drumsOnly, melodyOnly \in BOOLEAN :
          ~(drumsOnly /\ melodyOnly) /\ ExportAudio(drumsOnly, melodyOnly)
    \/ ExportSchedule({})
    \/ ExportRendered

Next == EdNext \/ SeqNext

vars == <<edVars, seqVars, dmVars, wavVars, auxVars>>

\* connectedCallback() up to its await: the DrumMachine is made and connected
\* to the master bus, and loadSamples has begun its 8 attempts
DmInitLoading ==
    /\ drumMachine = ConnectOn(NewDrumMachine, "masterBus")
    /\ loadPromises = Some(SampleIndices)
    /\ dmRaised = FALSE

\* loadSamples has completed with every sample decoded; connectedCallback has
\* not resumed yet
DmInitLoaded ==
    /\ drumMachine = [ConnectOn(NewDrumMachine, "masterBus") EXCEPT
                         !.samples = [i \in SampleIndices |-> Some(i)],
                         !.loaded = TRUE]
    /\ loadPromises = None
    /\ dmRaised = FALSE

AuxIdle == KeyIdle /\ RecorderIdle /\ AppIdle

Init == EdInit /\ SeqInit /\ DmInitLoaded /\ WavIdle /\ AuxIdle

StorageInit ==
    /\ EdInit /\ SeqInit /\ DmInitLoaded /\ WavIdle
    /\ KeyInit /\ RecorderIdle /\ AppIdle

BankInit == EdInit /\ SeqInit /\ DmInitLoading /\ WavIdle /\ AuxIdle

EncoderInit == EdInit /\ SeqInit /\ DmInitLoaded /\ WavInit /\ AuxIdle

Spec == Init /\ [][Next]_vars

SpecCut == Init /\ [][CutNext]_vars

SpecLoad == Init /\ [][LoadNext]_vars

SpecSched == Init /\ [][SchedNext]_vars

SpecKick == Init /\ [][KickNext]_vars

SpecMelody == Init /\ [][MelodyNext]_vars

SpecRetro == Init /\ [][RetroNext]_vars

SpecShape == Init /\ [][ShapeNext]_vars

SpecTempo == Init /\ [][TempoNext]_vars

SpecExport == Init /\ [][ExportNext]_vars

SpecSilent == BankInit /\ [][SilentNext]_vars

SpecPlayback == Init /\ [][PlaybackNext]_vars

\* The audio side keeps going: the context's clock advances while it may, a
\* node that has reached its end ends, and a dispatched 'ended' event is
\* handled. Animation frames are not assumed to run (a hidden page gets none).
SpecPlaybackFair ==
    /\ SpecPlayback
    /\ WF_vars(AdvanceEdClock)
    /\ WF_vars(NodeEnds)
    /\ WF_vars(OnEnded)

SpecWav == EncoderInit /\ [][WavNext]_vars

SpecKey == StorageInit /\ [][KeyNext]_vars

SpecRecorder == Init /\ [][RecorderNext]_vars

SpecRecorderFair ==
    /\ SpecRecorder
    /\ WF_vars(\E t \in audioRecorder.timers : AutoStopFires(t))
    /\ WF_vars(\E hasData \in BOOLEAN : OnDataAvailable(hasData))
    /\ WF_vars(OnStop)

SpecApp == StorageInit /\ [][AppNext]_vars

SpecBank == BankInit /\ [][BankNext]_vars

SpecEdit == Init /\ [][EditNext]_vars

(***************************************************************************)
(* Properties of the editor's cut.                                         *)
(***************************************************************************)
\* a step of cutSelection
IsCutStep == edLastOp' = "cutSelection"

\* cutSelection's precondition, read off the state
HasBufferAndSelection ==
    audioBuffer # None /\ selectionStart # None /\ selectionEnd # None

\* the buffer `buf` without its frames [a, b): original[0,a) ++ original[b,N),
\* channel by channel, at the same rate; no buffer when nothing is left
WithoutFrames(buf, a, b) ==
    IF BufLength(buf) - (b - a) <= 0 THEN None
    ELSE Some([numberOfChannels |-> buf.numberOfChannels,
               sampleRate |-> buf.sampleRate,
               data |-> [c \in 1..buf.numberOfChannels |->
                            SubSeq(buf.data[c], 1, a)
                                \o SubSeq(buf.data[c], b + 1, BufLength(buf))]])

\* C1: cutSelection treats the selection as an unordered pair: for a selection
\* (s, e) inside the buffer the frames removed are
\* [floor(min(s,e)*rate), floor(max(s,e)*rate)), whichever of s and e is larger
\* (so half the duration down to a quarter of it leaves three quarters).
C1_CutUnordered ==
    [][(IsCutStep /\ HasBufferAndSelection
        /\ selectionStart[1] <= Duration(audioBuffer[1])
        /\ selectionEnd[1] <= Duration(audioBuffer[1]))
       => audioBuffer' =
            WithoutFrames(audioBuffer[1],
                          Min(selectionStart[1], selectionEnd[1]) \div UnitsPerFrame,
                          Max(selectionStart[1], selectionEnd[1]) \div UnitsPerFrame)]_vars

\* the frames [a, b) that cutSelection takes the selection to stand for
SelFrameStart ==
    IF selectionStart[1] < selectionEnd[1]
    THEN selectionStart[1] \div UnitsPerFrame
    ELSE selectionEnd[1] \div UnitsPerFrame

SelFrameEnd == selectionEnd[1] \div UnitsPerFrame

C3_CutNoop ==
    [][(IsCutStep /\ ~HasBufferAndSelection)
       => /\ UNCHANGED <<audioBuffer, selectionStart, selectionEnd, isPlaying,
                         playbackTime, playbackStartTime, playheadPosition,
                         sourceNode, rafPending, endedPending>>
          /\ ~edRaised']_vars

\* C3, the case reached: cutSelection has run without a selection on a loaded
\* buffer while the editor was playing, and playback goes on
C3_NoopWhilePlaying ==
    /\ edLastOp = "cutSelection"
    /\ audioBuffer # None
    /\ selectionStart = None
    /\ isPlaying
    /\ sourceNode # None

C5_CutClamped ==
    [][(IsCutStep /\ HasBufferAndSelection)
       => /\ ~edRaised'
          /\ \/ audioBuffer' = None
             \/ \E a \in 0..BufLength(audioBuffer[1]) :
                  \E b \in a..BufLength(audioBuffer[1]) :
                    audioBuffer' = WithoutFrames(audioBuffer[1], a, b)]_vars

\* C6: the selection is cleared whenever the buffer changes: after a completed
\* load and after a cut that passes its guard both ends are null, and in every
\* state a non-null selection end implies a loaded buffer.
C6_SelectionCleared ==
    /\ []((selectionStart # None \/ selectionEnd # None) => audioBuffer # None)
    /\ [][((\E l \in decoding : DecodeResolved(l))
            \/ (IsCutStep /\ HasBufferAndSelection))
          => (selectionStart' = None /\ selectionEnd' = None)]_vars

(***************************************************************************)
(* Properties of the sequencer                                             *)
(***************************************************************************)

\* the entries of `scheduled` that the step from the unprimed state adds
NewlyScheduled ==
    IF seqIsPlaying' /\ ~seqIsPlaying THEN 1..Len(scheduled')
    ELSE (Len(scheduled) + 1)..Len(scheduled')

\* the run has been scheduled at the one tempo b up to its entry k
ConstantBpm(sched, k, b) == \A j \in 1..k : sched[j].bpm = b

\* the triggers of an entry with their times counted from the start
Relative(plays, t0) ==
    [n \in 1..Len(plays) |-> <<plays[n][1], plays[n][2] - t0, plays[n][3]>>]

\* the triggers of the entries k..16 of the run, times counted from the start
RECURSIVE FirstBarPlays(_)
FirstBarPlays(k) ==
    IF k > 16 \/ k > Len(scheduled) THEN <<>>
    ELSE Relative(scheduled[k].plays, startTime) \o FirstBarPlays(k + 1)

KickOnly == [EmptyPattern EXCEPT ![1] = TrackWith({0, 4, 8, 12})]

\* the times, counted from the start, at which the first bar triggers `track`
TrackTimes(track) ==
    LET all == FirstBarPlays(1)
    IN  SelectSeq([n \in 1..Len(all) |-> IF all[n][1] = track THEN <<all[n][2]>>
                                         ELSE <<>>],
                  LAMBDA e : e # <<>>)

\* the first n elements of a sequence
Prefix(seq, n) == SubSeq(seq, 1, Min(n, Len(seq)))

\* the scenario's case: the run plays the Kick-only pattern at 140 bpm
KickScenario ==
    /\ scheduled # <<>>
    /\ patterns[currentPattern] = KickOnly
    /\ ConstantBpm(scheduled, Len(scheduled), 140)

\* C8 as stated: the Kick of the scenario is triggered at 0, 0.2143, 0.4286
\* and 0.6429 s (0, 180, 360 and 540 units) from the start.
C8_KickTimesAsStated ==
    KickScenario =>
        TrackTimes(1) = Prefix(<<<<0>>, <<180>>, <<360>>, <<540>>>>, Len(TrackTimes(1)))

\* C8, amended: the Kick of the scenario is triggered at 0, 0.4286, 0.8571
\* and 1.2857 s (0, 360, 720 and 1080 units) from the start, one beat of
\* 60/140 s apart, and at no other time of the first bar.
C8_KickTimes ==
    KickScenario =>
        /\ TrackTimes(1) = Prefix(<<<<0>>, <<360>>, <<720>>, <<1080>>>>, Len(TrackTimes(1)))
        /\ Len(scheduled) >= 13 => Len(TrackTimes(1)) = 4

\* The first bar of the scenario has been scheduled in full.
C8_KickBarScheduled ==
    /\ KickScenario
    /\ Len(scheduled) >= 16
    /\ Len(TrackTimes(1)) = 4

\* C9: the step cursor stays in 0..15; every advance moves it to
\* (step + 1) mod 16, so that the k-th step scheduled since a start is
\* (k - 1) mod 16, none skipped and none repeated, however late the ticks
\* come, and the cursor is back where it was after 16 advances.
C9_WrapInvariant ==
    /\ currentStep \in 0..15
    /\ \A k \in 1..Len(scheduled) : scheduled[k].step = (k - 1) % 16
    /\ \A k \in 1..Len(scheduled) :
          k + 16 <= Len(scheduled) => scheduled[k + 16].step = scheduled[k].step
    /\ timersPending > 0 => currentStep = Len(scheduled) % 16

\* The run has gone into its second bar: the steps after step 15 are 0 and 1.
C9_SecondBarReached ==
    /\ Len(scheduled) >= 18
    /\ scheduled[17].step = 0
    /\ scheduled[18].step = 1
    /\ timersPending > 0
    /\ currentStep = Len(scheduled) % 16

\* the cells of a column that hold a pitch, as triggers at `time`
ColumnTriggers(grid, s, time) ==
    {<<i, time, grid[i][s][1]>> : i \in {j \in Tracks : grid[j][s] # None}}

\* the elements of a sequence
Range(seq) == {seq[n] : n \in 1..Len(seq)}

\* C10: when the scheduler schedules step s at time t, the triggers it issues
\* are one per cell of column s of the pattern current at that moment that
\* holds a pitch (0 included), with the cell's track, the time t and the
\* cell's pitch, and none for an empty cell.
C10_TriggersAreTheColumn ==
    [][\A k \in NewlyScheduled :
          /\ Range(scheduled'[k].plays)
                = ColumnTriggers(patterns[currentPattern], scheduled'[k].step,
                                 scheduled'[k].time)
          /\ Len(scheduled'[k].plays)
                = Cardinality({j \in Tracks :
                      patterns[currentPattern][j][scheduled'[k].step] # None})]_vars

\* Step 0 went out with track 0 at a dragged pitch and step 1 with the Kick at
\* a pitch of 0, and both cells have been emptied since.
C10_EditedWhileRunning ==
    /\ Len(scheduled) >= 2
    /\ scheduled[1].plays = <<<<0, startTime, -2400>>>>
    /\ scheduled[2].plays = <<<<1, scheduled[2].time, 0>>>>
    /\ patterns[currentPattern][0][0] = None
    /\ patterns[currentPattern][1][1] = None

\* A step in which stopPlayback runs: a toggle while playing, the start of an
\* export, or a detach.
StopStep ==
    \/ soundsLoaded /\ seqIsPlaying /\ TogglePlayback
    \/ DisconnectedCallback
    \/ \E drumsOnly, melodyOnly \in BOOLEAN : ExportAudio(drumsOnly, melodyOnly)

\* A step in which startPlayback runs.
StartStep == soundsLoaded /\ ~seqIsPlaying /\ TogglePlayback

\* C11: once stopPlayback has returned no scheduler timer is pending, and
\* while none is pending no timer is armed and no trigger is issued except by
\* the next start.
C11_SilentAfterStop ==
    [][/\ StopStep => timersPending' = 0 /\ ~timerLive'
       /\ (timersPending = 0 /\ (timersPending' > 0 \/ scheduled' # scheduled))
              => StartStep]_vars

\* a run was stopped and the clock has passed the point where a tick would
\* have scheduled the next step
C11_StoppedPastNextNote ==
    /\ timersPending = 0
    /\ Len(scheduled) > 1
    /\ seqClock >= nextNoteTime + ScheduleAheadTime

\* the steps of the run at which scheduleNote started a melody node
MelodyEntries == {k \in 1..Len(scheduled) : scheduled[k].melody}

\* The melody node started at entry k makes no sound from now on: it is the
\* node this.melodySource refers to and was stopped, or its buffer has played
\* to the end.
NodeSilenced(k) ==
    \/ /\ \A j \in MelodyEntries : j <= k
       /\ melodySource # None
       /\ melodySource[1].at = scheduled[k].time
       /\ melodySource[1].stopped
    \/ scheduled[k].time + scheduled[k].buffer[1] <= seqClock

\* C12: after stopPlayback returns, no melody node started during the run is
\* still playing or still scheduled to play.
C12_NoMelodyAfterStop ==
    [][StopStep => \A k \in MelodyEntries' : NodeSilenced(k)']_vars

\* C13: the first step scheduled in every run is step 0, at the clock's time
\* when the run was started.
C13_RunStartsAtStepZero ==
    [][StartStep => /\ Len(scheduled') >= 1
                    /\ scheduled'[1].step = 0
                    /\ scheduled'[1].time = seqClock
                    /\ startTime' = seqClock]_vars

\* a run restarted while an export is loading, after an earlier run
C13_RestartedDuringExport ==
    /\ exportStage = "loading"
    /\ timersPending = 1
    /\ seqClock > 0
    /\ startTime = seqClock
    /\ Len(scheduled) >= 1
    /\ scheduled[1].step = 0
    /\ scheduled[1].time = seqClock

\* the newly scheduled entries that started a melody node
NewMelodyEntries == {k \in NewlyScheduled : scheduled'[k].melody}

\* C14: a step starts the melody exactly when it is step 0 and a melody buffer
\* is loaded; the node starts at the step's time and plays into the master bus.
C14_MelodyOnStepZero ==
    [][/\ \A k \in NewlyScheduled :
            scheduled'[k].melody <=>
                (scheduled'[k].step = 0 /\ melodyBuffer # None)
       /\ NewMelodyEntries # {} =>
            LET k == CHOOSE j \in NewMelodyEntries :
                         \A i \in NewMelodyEntries : i <= j
            IN  melodySource' = Some([at |-> scheduled'[k].time,
                                      buffer |-> melodyBuffer[1],
                                      dest |-> "masterBus",
                                      stopped |-> FALSE])]_vars

\* the melody was started again at the step 0 of the second bar
C14_MelodyInSecondBar ==
    /\ Len(scheduled) >= 17
    /\ scheduled[17].melody
    /\ ~scheduled[16].melody
    /\ melodySource # None
    /\ melodySource[1].at = scheduled[17].time

\* C15: every step is handed to the audio engine with a time that is not
\* earlier than the clock's time at the moment it is scheduled.
C15_NeverInThePast ==
    [][\A k \in NewlyScheduled : scheduled'[k].time >= seqClock]_vars

\* A step in which a pending timer runs scheduler().
TickStep == \E latest \in BOOLEAN : SchedulerTick(latest)

\* C16 as stated: whenever the timer that timerID names can fire, the
\* scheduler() it runs leaves nextNoteTime strictly greater than it found it.
C16_StrictlyGreaterAfterEveryTick ==
    timerLive => SchedulerOn(Sq).nextNoteTime > nextNoteTime

\* C16: over a tick nextNoteTime never decreases and strictly increases when
\* the tick schedules a step; the steps of a run carry strictly increasing
\* times, all earlier than nextNoteTime.
C16_TimesIncrease ==
    [][/\ TickStep =>
            /\ nextNoteTime' >= nextNoteTime
            /\ Len(scheduled') > Len(scheduled) => nextNoteTime' > nextNoteTime
       /\ \A k \in NewlyScheduled :
            /\ k > 1 => scheduled'[k].time > scheduled'[k - 1].time
            /\ nextNoteTime' > scheduled'[k].time]_vars

\* ticks have scheduled steps after those of the start
C16_TicksScheduledSteps ==
    /\ timersPending = 1
    /\ Len(scheduled) >= 4
    /\ scheduled[4].time > scheduled[3].time
    /\ nextNoteTime >= seqClock + ScheduleAheadTime

\* C17: at most one scheduler timer is pending, and it is the one that
\* timerID names.
C17_OneTimer ==
    /\ timersPending \in {0, 1}
    /\ timerLive <=> timersPending = 1

\* a run restarted after an export stopped the one before, its timer pending
C17_TimerAfterExportAndRestart ==
    /\ timersPending = 1
    /\ seqIsPlaying
    /\ exportStage = "rendering"
    /\ Len(scheduled) >= 2

\* A step of the editing handlers: a step toggled, dragged or cleared, the
\* pattern switched, a preset loaded, the tempo dragged.
EditStep ==
    \/ \E c \in RetroCells \cup EditCells :
          StepRightClick(c[1], c[2]) \/ HandleStepPointerDown(c[1], c[2])
    \/ \E delta \in StepDragDeltas : StepMove(delta)
    \/ StepUp
    \/ \E patternIndex \in 0..3 : ChangePattern(patternIndex)
    \/ \E loopName \in LoopNames : LoadLoop(loopName)
    \/ HandleBpmDragStart
    \/ \E delta \in BpmDragDeltas \cup RetroBpmDeltas : HandleBpmDragMove(delta)
    \/ HandleBpmDragEnd

\* what the scheduler has committed to: the time and the cursor of the next
\* step, the pending timer, the triggers issued and the melody node
Committed ==
    <<nextNoteTime, currentStep, timersPending, timerLive, scheduled,
      melodySource>>

\* C18: an edit leaves everything the scheduler has committed to unchanged;
\* a start or a tick keeps the entries already issued and advances by one
\* sixteenth of the tempo in force for each step it schedules.
C18_EditsNotRetroactive ==
    [][/\ EditStep => UNCHANGED Committed
       /\ (StartStep \/ TickStep) =>
            LET restart == seqIsPlaying' /\ ~seqIsPlaying
                base == IF restart THEN seqClock ELSE nextNoteTime
                first == IF restart THEN 1 ELSE Len(scheduled) + 1
            IN  /\ ~restart => /\ Len(scheduled') >= Len(scheduled)
                                /\ \A k \in 1..Len(scheduled) :
                                       scheduled'[k] = scheduled[k]
                /\ \A k \in NewlyScheduled :
                       scheduled'[k].time = base + (k - first) * Sixteenth(bpm)
                /\ nextNoteTime' =
                       base + Cardinality(NewlyScheduled) * Sixteenth(bpm)]_vars

\* the tempo was changed and a cell set between two steps of a run: the later
\* step lies one sixteenth of the earlier tempo after the earlier step
C18_TempoChangedMidRun ==
    \E k \in 2..Len(scheduled) :
        /\ scheduled[k].bpm # scheduled[k - 1].bpm
        /\ scheduled[k].time - scheduled[k - 1].time
               = Sixteenth(scheduled[k - 1].bpm)
        /\ scheduled[k].plays # <<>>
        /\ scheduled[k - 1].plays = <<>>

\* C19: there are 4 patterns of 8 tracks of 16 steps, currentPattern is one
\* of them, and every cell is null or an integer pitch in [-2400, 2400].
C19_GridShape ==
    /\ DOMAIN patterns = 0..3
    /\ currentPattern \in 0..3
    /\ \A p \in 0..3 :
          /\ DOMAIN patterns[p] = Tracks
          /\ \A track \in Tracks :
                /\ DOMAIN patterns[p][track] = Steps
                /\ \A step \in Steps :
                      \/ patterns[p][track][step] = None
                      \/ /\ Len(patterns[p][track][step]) = 1
                         /\ patterns[p][track][step][1] \in -2400..2400

\* a preset in the last pattern whose last cell was dragged to the lowest
\* pitch, and a cell of the first pattern dragged by a fraction of a pixel
C19_DraggedToTheLimit ==
    /\ currentPattern = 3
    /\ patterns[3][7][15] = Some(-2400)
    /\ patterns[3][1][0] # None
    /\ patterns[0][7][15] = Some(2)
    /\ gesture # None /\ gesture[1].dragged

\* C20: bpm is an integer in [60, 200], so the sixteenth (60 / bpm) / 4 is
\* positive and finite.
C20_BpmInRange ==
    /\ bpm \in 60..200
    /\ Sixteenth(bpm) > 0
    /\ 4 * bpm * Sixteenth(bpm) <= 60 * SeqUnitsPerSecond

\* a preset was loaded during a drag that began at 200 and the pointer was
\* then dragged 141 pixels down
C20_DraggedBelowTheLimit ==
    /\ bpmDrag = Some(200)
    /\ bpm = 60
    /\ patterns[currentPattern] = PremadeLoops["BoomBap"].pattern

\* C21: loadLoop with a preset's name replaces the current pattern slot with
\* the preset's grid and sets bpm to the preset's, leaving the other slots
\* and currentPattern as they were; with any other name it changes nothing.
C21_PresetLoad ==
    [][/\ \A loopName \in UnknownLoopNames :
             LoadLoopOn(loopName) = [patterns |-> patterns, bpm |-> bpm]
       /\ \A loopName \in LoopNames :
             LoadLoop(loopName) =>
                /\ patterns'[currentPattern] = PremadeLoops[loopName].pattern
                /\ bpm' = PremadeLoops[loopName].bpm
                /\ \A p \in 0..3 \ {currentPattern} : patterns'[p] = patterns[p]
                /\ DOMAIN patterns' = 0..3
                /\ currentPattern' = currentPattern]_vars

\* Trap was loaded into the last slot while the first slot held an edited
\* House and the slots between were empty
C21_TrapBesideEditedHouse ==
    /\ currentPattern = 3
    /\ patterns[3] = PremadeLoops["Trap"].pattern
    /\ bpm = PremadeLoops["Trap"].bpm
    /\ patterns[0] = [PremadeLoops["House"].pattern EXCEPT ![7][15] = Some(-2400)]
    /\ patterns[1] = EmptyPattern

\* the non-empty cells of a pattern
SoundingCells(grid) ==
    {c \in Tracks \X Steps : grid[c[1]][c[2]] # None}

\* C22: an export schedules one drum trigger at step * (60 / bpm) / 4 for
\* every non-empty cell of the current pattern iff it is not melody-only, and
\* the melody at time 0 iff it is not drums-only and a melody is loaded; the
\* render target is one bar of that tempo long.
C22_RenderEventSet ==
    exported # None =>
        LET e == exported[1]
            job == exportJob[1]
            cells == IF job.melodyOnly THEN {} ELSE SoundingCells(e.grid)
        IN  /\ Len(e.plays) = Cardinality(cells)
            /\ Range(e.plays) =
                  {<<c[1], (c[2] * SixtyOverBpm(e.bpm)) \div 4,
                     e.grid[c[1]][c[2]][1]>> : c \in cells}
            /\ e.melody <=> (~job.drumsOnly /\ melodyBuffer # None)
            /\ e.melody => e.melodyNode # None /\ e.melodyNode[1].at = 0
            /\ e.loopDuration = 16 * Sixteenth(e.bpm)

\* C23: in an export that is not melody-only every drum node reaches the
\* rendering context's output: it plays into the master gain, and the master
\* gain is connected to the destination.
C23_OfflineDrumsConnected ==
    (exported # None /\ ~exportJob[1].melodyOnly) =>
        /\ \A n \in 1..Len(exported[1].drumMachine.nodes) :
              exported[1].drumMachine.nodes[n].to = "masterGain"
        /\ exported[1].drumMachine.nodes # <<>> =>
              exported[1].drumMachine.masterGain = Some("destination")

\* C24: an attempt that succeeds stores its buffer at its own index, one
\* that fails stores nothing, neither raises; the bank is ready once all 8
\* attempts have finished and not before.
C24_LoadTolerant ==
    [][/\ loadPromises # None => ~drumMachine.loaded
       /\ \A index \in SampleIndices, ok \in BOOLEAN :
             LoadAttemptEnds(index, ok) =>
                /\ drumMachine'.samples[index] =
                      (IF ok THEN Some(index) ELSE None)
                /\ \A i \in SampleIndices \ {index} :
                      drumMachine'.samples[i] = drumMachine.samples[i]
                /\ ~drumMachine'.loaded
                /\ ~dmRaised'
       /\ LoadSamplesResolves =>
             /\ drumMachine'.loaded
             /\ drumMachine'.samples = drumMachine.samples
             /\ ~dmRaised'
       /\ drumMachine'.loaded => loadPromises' = None]_vars

\* the bank became ready although the first and the last voice failed, the
\* others holding their own buffers
C24_ReadyWithTwoVoicesMissing ==
    /\ drumMachine.loaded
    /\ drumMachine.samples[0] = None
    /\ drumMachine.samples[7] = None
    /\ \A i \in 1..6 : drumMachine.samples[i] = Some(i)

\* C26: every node play() has created carries the gain of its voice, 1.5
\* (3 halves) for voice 0 and 1.0 (2 halves) for voices 1..7, whatever its
\* pitch offset, its start time and the nodes created before it.
C26_VoiceGains ==
    \A n \in 1..Len(drumMachine.nodes) :
       drumMachine.nodes[n].gain =
          (IF drumMachine.nodes[n].index = 0 THEN 3 ELSE 2)

\* a detuned, delayed 808 at 1.5 followed by a voice 7 at 1.0
C26_KickThenLastVoice ==
    /\ Len(drumMachine.nodes) = 2
    /\ drumMachine.nodes[1].index = 0
    /\ drumMachine.nodes[1].detune = 1200
    /\ drumMachine.nodes[1].when = 5
    /\ drumMachine.nodes[1].gain = 3
    /\ drumMachine.nodes[2].index = 7
    /\ drumMachine.nodes[2].gain = 2

\* a call of play on the live machine
PlayStep(index) ==
    \E time \in PlayTimes, pitchBend \in PlayPitches : Play(index, time, pitchBend)

\* C25: play raises nothing; it creates no node when the bank is not ready,
\* the index is outside 0..7 or the voice has no buffer, and exactly one
\* node otherwise; a scheduler run that triggers such a voice raises
\* nothing and leaves its timer armed.
C25_NoOpTriggers ==
    [][/\ \A index \in PlayIndices :
             PlayStep(index) =>
                /\ ~dmRaised'
                /\ Len(drumMachine'.nodes) = Len(drumMachine.nodes) +
                      (IF /\ drumMachine.loaded
                          /\ index \in SampleIndices
                          /\ drumMachine.samples[index] # None
                       THEN 1 ELSE 0)
       /\ StartStep \/ TickStep =>
             /\ ~dmRaised'
             /\ seqIsPlaying' => timerLive' /\ timersPending' = 1]_vars

\* the transport has scheduled three steps and more, among them triggers of
\* the Kick whose sample failed to load, and its timer is armed
C25_RunningOverMissingKick ==
    /\ drumMachine.samples[1] = None
    /\ Len(scheduled) >= 3
    /\ \E k \in 1..Len(scheduled) :
          \E n \in 1..Len(scheduled[k].plays) : scheduled[k].plays[n][1] = 1
    /\ scheduled[Len(scheduled)].step = Len(scheduled) - 1
    /\ seqIsPlaying /\ timerLive /\ ~dmRaised

C28_AutoStop ==
    /\ [][/\ audioBuffer # None =>
                playheadPosition <= Duration(audioBuffer[1])
           /\ \A latest \in BOOLEAN :
                 isPlaying /\ LoopFrame(latest) =>
                    IF PlaybackPosition >= Duration(audioBuffer[1])
                    THEN /\ ~isPlaying'
                         /\ playbackTime' = 0
                         /\ playheadPosition' = 0
                    ELSE /\ isPlaying'
                         /\ playheadPosition' = PlaybackPosition]_vars
    /\ isPlaying ~> ~isPlaying

\* a frame has stopped the playback at the end of the buffer, before the
\* 'ended' event of the node was handled
C28_StoppedByTheFrame ==
    /\ audioBuffer # None
    /\ ~isPlaying /\ rafLatest /\ endedPending > 0
    /\ playbackTime = 0 /\ playheadPosition = 0
    /\ edClock >= Duration(audioBuffer[1])

\* the unsigned 16-bit and 32-bit numbers and the signed 16-bit number that
\* start `offset` bytes into the file w, low byte first
ReadU16(w, offset) == w[offset + 1] + 256 * w[offset + 2]

ReadU32(w, offset) == ReadU16(w, offset) + 65536 * ReadU16(w, offset + 2)

ReadI16(w, offset) ==
    IF ReadU16(w, offset) >= 32768 THEN ReadU16(w, offset) - 65536
    ELSE ReadU16(w, offset)

\* the canonical 16-bit PCM layout of the buffer in the file w, the encoder
\* converting samples by Pcm
WavLayout(w, buffer, Pcm(_)) ==
    LET C == buffer.numberOfChannels
        F == BufLength(buffer)
        R == buffer.sampleRate
    IN  /\ Len(w) = 44 + 2 * F * C
        /\ \A k \in 1..Len(w) : w[k] \in 0..255
        /\ SubSeq(w, 1, 4) = <<82, 73, 70, 70>>
        /\ ReadU32(w, 4) = Len(w) - 8
        /\ SubSeq(w, 9, 16) = <<87, 65, 86, 69, 102, 109, 116, 32>>
        /\ ReadU32(w, 16) = 16
        /\ ReadU16(w, 20) = 1
        /\ ReadU16(w, 22) = C
        /\ ReadU32(w, 24) = R
        /\ ReadU32(w, 28) = R * 2 * C
        /\ ReadU16(w, 32) = 2 * C
        /\ ReadU16(w, 34) = 16
        /\ SubSeq(w, 37, 40) = <<100, 97, 116, 97>>
        /\ ReadU32(w, 40) = 2 * F * C
        /\ \A i \in 0..(F - 1), ch \in 0..(C - 1) :
              ReadI16(w, 44 + 2 * (i * C + ch)) = Pcm(buffer.data[ch + 1][i + 1])

\* C29: both encoders write 44 + 2*F*C bytes: the little-endian header of a
\* 16-bit PCM file with RIFF size total - 8, format 1, C channels, rate R,
\* byte rate R*2*C, block align 2*C, data size 2*F*C, then the sample of
\* frame i, channel ch at byte 44 + 2*(i*C + ch).
C29_WavLayout ==
    /\ wavEditor # None => WavLayout(wavEditor[1], wavBuffer[1], EditorPcm)
    /\ wavSequencer # None =>
          WavLayout(wavSequencer[1], wavBuffer[1], SequencerPcm)

\* both encoders have written a stereo buffer of two frames whose four
\* samples are not all the same
C29_StereoTwoFrames ==
    /\ wavEditor # None /\ wavSequencer # None
    /\ wavBuffer[1].numberOfChannels = 2
    /\ BufLength(wavBuffer[1]) = 2
    /\ wavBuffer[1].sampleRate = 48000
    /\ wavBuffer[1].data = <<<<-65536, 0>>, <<32768, -65536>>>>
    /\ Len(wavEditor[1]) = 52

\* the 16-bit value of a sample x / 65536: clamped to [-1, 1], a negative
\* sample times 32768, any other times 32767, truncated
PcmOf(x) ==
    IF ClampSample(x) < 0
    THEN Trunc(ClampSample(x) * 32768, SampleDenominator)
    ELSE Trunc(ClampSample(x) * 32767, SampleDenominator)

\* C30: each encoder writes, for every sample, the clamped sample scaled by
\* 32768 when negative and by 32767 otherwise, truncated to 16 bits, so the
\* two files carry the same value for the same sample.
C30_SamePcm ==
    \A i \in 0..(IF wavBuffer = None THEN -1 ELSE BufLength(wavBuffer[1]) - 1) :
       \A ch \in 0..(wavBuffer[1].numberOfChannels - 1) :
          LET at == 44 + 2 * (i * wavBuffer[1].numberOfChannels + ch)
              x == wavBuffer[1].data[ch + 1][i + 1]
          IN  /\ wavEditor # None => ReadI16(wavEditor[1], at) = PcmOf(x)
              /\ wavSequencer # None => ReadI16(wavSequencer[1], at) = PcmOf(x)

\* what 16-bit PCM readers make of the stored integer v: v / 32768 (as
\* decodeAudioData does), or v / 32767 for v >= 0 and v / 32768 for v < 0
PcmReaders == {"over32768", "mirrored"}

\* |decoded - original| <= 1/32767 for the stored integer v and the
\* original sample x / 65536
WithinQuantum(v, x, reader) ==
    IF reader = "over32768" \/ v < 0
    THEN (IF 2 * v >= x THEN 2 * v - x ELSE x - 2 * v) * 32767 <= 65536
    ELSE (IF v * 65536 >= x * 32767 THEN v * 65536 - x * 32767
          ELSE x * 32767 - v * 65536) <= 65536

\* the header of the file w read back: channels, rate and frames of buffer
HeaderReadsBack(w, buffer) ==
    /\ ReadU16(w, 22) = buffer.numberOfChannels
    /\ ReadU32(w, 24) = buffer.sampleRate
    /\ ReadU32(w, 40) \div ReadU16(w, 32) = BufLength(buffer)

\* every sample of the file w that was within [-1, 1] reads back within
\* 1/32767 of the original
SamplesReadBack(w, buffer, reader) ==
    \A i \in 0..(BufLength(buffer) - 1), ch \in 0..(buffer.numberOfChannels - 1) :
       LET x == buffer.data[ch + 1][i + 1]
       IN  x \in (-SampleDenominator)..SampleDenominator =>
              WithinQuantum(ReadI16(w, 44 + 2 * (i * buffer.numberOfChannels + ch)),
                            x, reader)

\* C31: read back by a 16-bit PCM reader, the file of either encoder gives
\* the channel count, the sample rate and the frame count of the buffer and
\* every sample that was within [-1, 1] to within 1/32767.
C31_RoundTrip ==
    \A reader \in PcmReaders :
       /\ wavEditor # None =>
             /\ HeaderReadsBack(wavEditor[1], wavBuffer[1])
             /\ SamplesReadBack(wavEditor[1], wavBuffer[1], reader)
       /\ wavSequencer # None =>
             /\ HeaderReadsBack(wavSequencer[1], wavBuffer[1])
             /\ SamplesReadBack(wavSequencer[1], wavBuffer[1], reader)

\* the entry a call found was stored more than 24 hours before the call
ExpiredAt(call) ==
    call.entry /\ call.storedAt # None /\ call.now - call.storedAt[1] > KeyExpiry

ClickCells == {<<0, 0>>, <<7, 15>>}

\* the pattern buttons pressed
ClickPatterns == {0, 1}

\* pointer travel of the step drags, in eighths of a pixel: 300 pixels up,
\* and an eighth of a pixel down
ClickDragDeltas == {-1, 2400}

ClickNext ==
    \/ \E c \in ClickCells : PointerUp /\ StepRightClick(c[1], c[2])
    \/ \E c \in ClickCells : HandleStepPointerDown(c[1], c[2])
    \/ \E delta \in ClickDragDeltas :
          FineDragFromDefault(delta) /\ StepMove(delta)
    \/ StepUp
    \/ \E patternIndex \in ClickPatterns : ChangePattern(patternIndex)

SpecClick == Init /\ [][ClickNext]_vars

\* Every cell of every pattern but the one at (pattern, track, step) is in
\* `new` what it is in `old`.
OnlyCellChanges(old, new, pattern, track, step) ==
    \A p \in 0..3 : \A t \in 0..7 : \A s \in 0..15 :
        <<p, t, s>> # <<pattern, track, step>> => new[p][t][s] = old[p][t][s]

\* clamp(start pitch + 12*d, -2400, 2400) for a drag of `delta` eighths of a
\* pixel, as a pitch in eighths of a cent
DraggedPitch(startPitch, delta) ==
    Max(-2400 * EighthsPerPixel,
        Min(2400 * EighthsPerPixel, startPitch * EighthsPerPixel + delta * 12))

\* A right-click empties its cell and touches no other.
RightClickEmpties ==
    \A c \in ClickCells :
        StepRightClick(c[1], c[2]) =>
            /\ patterns'[currentPattern][c[1]][c[2]] = None
            /\ OnlyCellChanges(patterns, patterns', currentPattern, c[1], c[2])

\* A pointer down on an empty cell sets it to pitch 0, one on a non-empty
\* cell leaves it, and neither touches another cell.
DownSetsDefault ==
    \A c \in ClickCells :
        HandleStepPointerDown(c[1], c[2]) =>
            LET was == patterns[currentPattern][c[1]][c[2]]
            IN  /\ patterns'[currentPattern][c[1]][c[2]]
                      = (IF was = None THEN Some(0) ELSE was)
                /\ OnlyCellChanges(patterns, patterns', currentPattern, c[1], c[2])

\* A drag leaves in the cell it began on the clamped pitch of its travel,
\* and touches no other cell.
DragSetsPitch ==
    \A delta \in ClickDragDeltas :
        StepMove(delta) =>
            LET g == gesture[1]
                cell == patterns'[g.shown][g.track][g.step]
            IN  /\ cell # None
                /\ cell[1] * EighthsPerPixel
                       = DraggedPitch(g.stepDragStartPitch, delta)
                /\ OnlyCellChanges(patterns, patterns', g.shown, g.track, g.step)

\* The release of a click leaves its cell toggled, the release of a drag
\* leaves the dragged pitch, and neither touches another cell.
ReleaseSettles ==
    StepUp =>
        LET g == gesture[1]
            cell == patterns'[g.shown][g.track][g.step]
        IN  /\ ~g.dragged =>
                  cell = (IF g.currentPitch = None THEN Some(0) ELSE None)
            /\ g.dragged => cell # None /\ cell = patterns[g.shown][g.track][g.step]
            /\ OnlyCellChanges(patterns, patterns', g.shown, g.track, g.step)

\* C33: a click on an empty cell of the current pattern sets it to pitch 0
\* and a click on a non-empty cell clears it (so two clicks restore its
\* emptiness); a right-click leaves the cell empty; a drag of d pixels
\* upward sets the cell to clamp(start pitch + 12*d, -2400, 2400) and the
\* release does not clear it; no other cell of any pattern changes.
C33_ClickSemantics ==
    [][/\ RightClickEmpties
       /\ DownSetsDefault
       /\ DragSetsPitch
       /\ ReleaseSettles]_vars

\* C34: between handlers, isPlaying is true exactly when a scheduler timer
\* is pending, after any sequence of Play/Stop toggles, exports and
\* detaches.
C34_PlayingIffTimer == seqIsPlaying <=> timersPending > 0

\* Every pending 'ended' event comes from a node that pause() or stop()
\* stopped earlier: the node now playing has not ended.
OnlyStaleEndedPending ==
    endedPending > 0 /\ sourceNode # None /\ ~sourceNode[1].ended

\* C35: the 'ended' event of a node stopped by pause (also by the pause
\* inside rewind) never stops or resets a playback started afterwards.
C35_StaleEndedIgnored ==
    [][OnlyStaleEndedPending /\ OnEnded =>
          /\ isPlaying' = isPlaying
          /\ sourceNode' = sourceNode
          /\ playbackTime' = playbackTime]_vars

\* a.download of the sequencer's downloadWav(), for this.bpm = b when the
\* rendering has finished
ExportFileName(b) == <<"sequencer-export-", b, "bpm.wav">>

\* C36: one export uses one tempo: the bpm that sized the render target is
\* the bpm that placed the 16 step times and the bpm in the name of the
\* downloaded file, also when bpm changes while the export awaits.
C36_OneTempo ==
    [][ExportRendered =>
          /\ exported[1].loopDuration = LoopDuration(exported[1].bpm)
          /\ ExportFileName(bpm) = ExportFileName(exported[1].bpm)]_vars

\* the chunks of the 'finished' event f that the recorder it is of did not
\* produce
ForeignChunks(f) ==
    {i \in 1..Len(f.detail) : f.detail[i] # f.recorder}

\* C37: recordings are kept separate: a chunk of an earlier recorder is never
\* added to the chunk list of a newer recording, each 'finished' blob holds
\* only the chunks of its own recording, and the stream destination of the
\* recording under way stays connected, also when a recording is started
\* before the events of the one stopped before it have been delivered.
C37_RecordingsSeparate ==
    /\ \A i \in 1..Len(audioRecorder.recordedChunks) :
          audioRecorder.recordedChunks[i] = audioRecorder.mediaRecorder
    /\ \A n \in 1..Len(audioRecorder.finished) :
          ForeignChunks(audioRecorder.finished[n]) = {}
    /\ IsRecording(audioRecorder) =>
          audioRecorder.mediaRecorder \in audioRecorder.connected

\* the 'finished' events dispatched for the r-th recording
FinishedOf(r) ==
    {n \in 1..Len(audioRecorder.finished) : audioRecorder.finished[n].recorder = r}

\* The auto-stop timer of the recording under way is pending with the delay
\* start() was given, no other timer is, and no recording has finished twice.
RecorderTimerInv ==
    /\ IsRecording(audioRecorder) =>
          /\ audioRecorder.timeoutId = Some(audioRecorder.mediaRecorder)
          /\ \E t \in audioRecorder.timers :
                /\ audioRecorder.timers = {t}
                /\ t.id = audioRecorder.mediaRecorder
                /\ t.delay \in {MaxDuration} \cup {d[1] : d \in RecordDurations \ {None}}
    /\ ~IsRecording(audioRecorder) =>
          audioRecorder.timers = {} /\ audioRecorder.timeoutId = None
    /\ \A r \in 1..MaxRecordings : Cardinality(FinishedOf(r)) <= 1
    /\ \A duration \in RecordDurations :
          IsRecording(audioRecorder) =>
              RecorderStartOn(audioRecorder, duration) = audioRecorder

\* C38: every accepted start(duration) is eventually followed by exactly one
\* 'finished' event of its recording, which is stopped no later than its
\* auto-stop timer fires; a start while recording changes nothing; the
\* auto-stop timer is pending only while recording.
C38_EveryStartFinishes ==
    /\ []RecorderTimerInv
    /\ \A r \in 1..MaxRecordings :
          (Len(audioRecorder.recorders) >= r) ~> (Cardinality(FinishedOf(r)) = 1)

\* Two recordings have finished, with one 'finished' event each, and a
\* third is under way with the default auto-stop delay.
C38_ThirdRecordingUnderWay ==
    /\ Len(audioRecorder.recorders) = 3
    /\ IsRecording(audioRecorder)
    /\ Cardinality(FinishedOf(1)) = 1 /\ Cardinality(FinishedOf(2)) = 1
    /\ audioRecorder.events = <<>>
    /\ audioRecorder.timers = {[id |-> 3, delay |-> MaxDuration]}

\* C39: the latest load wins: once the decodes of all the blobs assigned
\* have completed, the loaded buffer is the decode of the blob assigned
\* last, whichever decode finished first.
C39_LatestLoadWins ==
    [][\A l \in decoding :
          DecodeResolved(l) /\ decoding' = {} /\ ~edRaised' =>
              audioBuffer' = Some(DecodeAudioData(audioBlob[1]))]_vars

\* C40: after 'api-key-saved' with the key K has been handled, the music
\* helper the component uses was constructed from a client holding K, also
\* when a helper built from an earlier key existed already.
C40_HelperHoldsSavedKey ==
    [][ApiKeySaved =>
          /\ app'.pdjMidi.liveMusicHelper # None
          /\ app'.pdjMidi.liveMusicHelper[1].client.apiKey = app.saving[1]]_vars


====
